---- MODULE Spec2Model ----
(***************************************************************************)
(* Variant quality filter of the Exomiser pipeline scripts:                *)
(*   passes_filters      (verify_vcf.py)  -> (bool, reason)                *)
(*   filter_vcf_variant  (filter_vcf.py)  -> bool                          *)
(* A record is drawn from the values the VCF reader can yield, and the two *)
(* predicates are applied to it.  Python values are tagged (None, int,     *)
(* str, list); int() is modelled by what it does on each tag, exceptions   *)
(* are outcomes of evaluation that try/except maps as the code does.       *)
(***************************************************************************)
EXTENDS Integers, Sequences, FiniteSets, TLC

VARIABLES record, verified, filtered, stderr

\* one variable for each script run as a whole; each holds the locals of
\* the running function as a record
VARIABLES verifyRun, filterRun, summary, analysis, stats, batch

vars ==
    <<record, verified, filtered, stderr,
      verifyRun, filterRun, summary, analysis, stats, batch>>

\* the variables of the predicate-level machine
predicateVars == <<record, verified, filtered, stderr>>

\* a script that is not run in the specification at hand
Off == [pc |-> "off"]

----------------------------------------------------------------------------
(* Bounds of the explored inputs *)

\* QUAL, GQ and DP take the values within Radius of their threshold
Radius == 1
\* allele read counts range over 0..MaxReads
MaxReads == 11

----------------------------------------------------------------------------
(* Thresholds and defaults written in the code *)

QUAL_MIN == 30
GQ_MIN == 20
DP_MIN == 12
\* the literal 0.45, as the fraction VAF_NUM / VAF_DEN
VAF_NUM == 9
VAF_DEN == 20
VERIFY_QUAL_DEFAULT == 0 - 1
FILTER_QUAL_DEFAULT == 0

----------------------------------------------------------------------------
(* Python values *)

None == [kind |-> "None", v |-> 0, s |-> <<>>]
\* the attribute is not a field of sample.data (hasattr is False)
Absent == [kind |-> "absent", v |-> 0, s |-> <<>>]
IntV(n) == [kind |-> "int", v |-> n, s |-> <<>>]
\* a str, as its sequence of characters
StrV(chars) == [kind |-> "str", v |-> 0, s |-> chars]

\* the AD attribute: absent, None, a scalar int, or a list of entries
ADAbsent == [kind |-> "absent", v |-> 0, items |-> <<>>]
ADNone == [kind |-> "None", v |-> 0, items |-> <<>>]
ADInt(n) == [kind |-> "int", v |-> n, items |-> <<>>]
ADList(items) == [kind |-> "list", v |-> 0, items |-> items]

Digits == {"0", "1", "2", "3", "4", "5", "6", "7", "8", "9"}

DigitVal(c) ==
    CASE c = "0" -> 0 [] c = "1" -> 1 [] c = "2" -> 2 [] c = "3" -> 3
      [] c = "4" -> 4 [] c = "5" -> 5 [] c = "6" -> 6 [] c = "7" -> 7
      [] c = "8" -> 8 [] c = "9" -> 9

RECURSIVE ParseDigits(_)
ParseDigits(chars) ==
    IF chars = <<>> THEN 0
    ELSE ParseDigits(SubSeq(chars, 1, Len(chars) - 1)) * 10
         + DigitVal(chars[Len(chars)])

IsDigits(chars) == Len(chars) > 0 /\ \A i \in 1..Len(chars) : chars[i] \in Digits

(* Result of evaluating an expression: a value or a raised exception *)
Ok(n) == [ok |-> TRUE, v |-> n, exc |-> "", msg |-> ""]
Raised(exc, msg) == [ok |-> FALSE, v |-> 0, exc |-> exc, msg |-> msg]

\* int(x)
PyInt(x) ==
    CASE x.kind = "int" -> Ok(x.v)
      [] x.kind = "str" ->
            IF IsDigits(x.s) THEN Ok(ParseDigits(x.s))
            ELSE Raised("ValueError", "invalid literal for int() with base 10")
      [] OTHER ->
            Raised("TypeError", "int() argument must be a string, a bytes-like object or a real number, not 'NoneType'")

\* float(x) of a QUAL the reader yields (a number)
PyFloat(x) ==
    CASE x.kind = "int" -> Ok(x.v)
      [] x.kind = "str" ->
            IF IsDigits(x.s) THEN Ok(ParseDigits(x.s))
            ELSE Raised("ValueError", "could not convert string to float")
      [] OTHER ->
            Raised("TypeError", "float() argument must be a string or a real number, not 'NoneType'")

\* truth value of ad in `if ad and ...`
ADTruthy(ad) ==
    CASE ad.kind = "list" -> Len(ad.items) > 0
      [] ad.kind = "int" -> ad.v # 0
      [] OTHER -> FALSE

\* len(ad)
PyLen(ad) ==
    IF ad.kind = "list" THEN Ok(Len(ad.items))
    ELSE Raised("TypeError", "object of type 'int' has no len()")

\* alt_reads / total_reads < 0.45 in binary floating point.  Both sides are
\* correctly rounded, so for read counts below 2^50 the comparison is the
\* exact one on the fractions; 9/20 rounds to the same double as 0.45.
VafBelow(alt_reads, total_reads) == alt_reads * VAF_DEN < VAF_NUM * total_reads

----------------------------------------------------------------------------
(* Outcome of running a block of statements *)

\* the block ended in a return statement
Return(passes, reason, at, divided) ==
    [tag |-> "return", passes |-> passes, reason |-> reason, at |-> at,
     exc |-> "", msg |-> "", divided |-> divided]
\* an exception left the block
Raise(exc, msg, at) ==
    [tag |-> "raise", passes |-> FALSE, reason |-> "", at |-> at,
     exc |-> exc, msg |-> msg, divided |-> FALSE]
\* the block ran to its end without returning
Fall(divided) ==
    [tag |-> "fall", passes |-> FALSE, reason |-> "", at |-> "",
     exc |-> "", msg |-> "", divided |-> divided]
\* the function has not been called on the current record
NotCalled ==
    [tag |-> "none", passes |-> FALSE, reason |-> "", at |-> "",
     exc |-> "", msg |-> "", divided |-> FALSE]

----------------------------------------------------------------------------
(* verify_vcf.py: passes_filters *)

\* qual = float(record.QUAL) if record.QUAL is not None else -1
\* if qual < 30: return False, "QUAL"
verify_qual_check(rec) ==
    LET qual == IF rec.QUAL.kind # "None" THEN PyFloat(rec.QUAL)
                ELSE Ok(VERIFY_QUAL_DEFAULT)
    IN  IF ~qual.ok THEN Raise(qual.exc, qual.msg, "QUAL")
        ELSE IF qual.v < QUAL_MIN THEN Return(FALSE, "QUAL", "QUAL", FALSE)
        ELSE Fall(FALSE)

\* if not record.samples: return False, "NoSample"
verify_sample_check(rec) ==
    IF Len(rec.samples) = 0 THEN Return(FALSE, "NoSample", "sample", FALSE)
    ELSE Fall(FALSE)

\* the GQ block: hasattr, None, int(gq) < 20
verify_gq_check(data) ==
    IF data.GQ.kind # "absent"
    THEN LET gq == data.GQ
         IN  IF gq.kind = "None" THEN Return(FALSE, "GQ", "GQ", FALSE)
             ELSE LET n == PyInt(gq)
                  IN  IF ~n.ok THEN Raise(n.exc, n.msg, "GQ")
                      ELSE IF n.v < GQ_MIN THEN Return(FALSE, "GQ", "GQ", FALSE)
                      ELSE Fall(FALSE)
    ELSE Return(FALSE, "NoGQ", "GQ", FALSE)

\* the DP block: hasattr, None, int(dp) < 12
verify_dp_check(data) ==
    IF data.DP.kind # "absent"
    THEN LET dp == data.DP
         IN  IF dp.kind = "None" THEN Return(FALSE, "DP", "DP", FALSE)
             ELSE LET n == PyInt(dp)
                  IN  IF ~n.ok THEN Raise(n.exc, n.msg, "DP")
                      ELSE IF n.v < DP_MIN THEN Return(FALSE, "DP", "DP", FALSE)
                      ELSE Fall(FALSE)
    ELSE Return(FALSE, "NoDP", "DP", FALSE)

\* alt_reads / total_reads: a fraction, or ZeroDivisionError
PyTrueDiv(num, den) ==
    IF den = 0 THEN Raised("ZeroDivisionError", "division by zero")
    ELSE Ok(<<num, den>>)

\* verify_vaf_try_body with the ratio taken on the reference reads
verify_vaf_try_body_ref_ratio(ad) ==
    LET ref_reads == PyInt(ad.items[1])
        alt_reads == PyInt(ad.items[2])
    IN  IF ~ref_reads.ok THEN Raise(ref_reads.exc, ref_reads.msg, "VAF")
        ELSE IF ~alt_reads.ok THEN Raise(alt_reads.exc, alt_reads.msg, "VAF")
        ELSE LET total_reads == ref_reads.v + alt_reads.v
             IN  IF total_reads > 0
                 THEN LET vaf == PyTrueDiv(ref_reads.v, total_reads)
                      IN  IF ~vaf.ok THEN Raise(vaf.exc, vaf.msg, "VAF")
                          ELSE IF VafBelow(vaf.v[1], vaf.v[2])
                          THEN Return(FALSE, "VAF", "VAF", TRUE)
                          ELSE Fall(TRUE)
                 ELSE Return(FALSE, "ZeroReads", "VAF", FALSE)

\* verify_vaf_try_body with the guard written total_reads >= 0
verify_vaf_try_body_zero_unguarded(ad) ==
    LET ref_reads == PyInt(ad.items[1])
        alt_reads == PyInt(ad.items[2])
    IN  IF ~ref_reads.ok THEN Raise(ref_reads.exc, ref_reads.msg, "VAF")
        ELSE IF ~alt_reads.ok THEN Raise(alt_reads.exc, alt_reads.msg, "VAF")
        ELSE LET total_reads == ref_reads.v + alt_reads.v
             IN  IF total_reads >= 0
                 THEN LET vaf == PyTrueDiv(alt_reads.v, total_reads)
                      IN  IF ~vaf.ok THEN Raise(vaf.exc, vaf.msg, "VAF")
                          ELSE IF VafBelow(vaf.v[1], vaf.v[2])
                          THEN Return(FALSE, "VAF", "VAF", TRUE)
                          ELSE Fall(TRUE)
                 ELSE Return(FALSE, "ZeroReads", "VAF", FALSE)

\* the statements inside the inner try of the VAF block:
\* int(ad[0]), int(ad[1]), the sum, the guarded division and the comparison
verify_vaf_try_body(ad) ==
    LET ref_reads == PyInt(ad.items[1])
        alt_reads == PyInt(ad.items[2])
    IN  IF ~ref_reads.ok THEN Raise(ref_reads.exc, ref_reads.msg, "VAF")
        ELSE IF ~alt_reads.ok THEN Raise(alt_reads.exc, alt_reads.msg, "VAF")
        ELSE LET total_reads == ref_reads.v + alt_reads.v
             IN  IF total_reads > 0
                 THEN LET vaf == PyTrueDiv(alt_reads.v, total_reads)
                      IN  IF ~vaf.ok THEN Raise(vaf.exc, vaf.msg, "VAF")
                          ELSE IF VafBelow(vaf.v[1], vaf.v[2])
                          THEN Return(FALSE, "VAF", "VAF", TRUE)
                          ELSE Fall(TRUE)
                 ELSE Return(FALSE, "ZeroReads", "VAF", FALSE)

\* try: ... except (ValueError, IndexError): return False, "AD_Format_Error"
verify_vaf_try(ad) ==
    LET body == verify_vaf_try_body(ad)
    IN  IF body.tag = "raise" /\ body.exc \in {"ValueError", "IndexError"}
        THEN Return(FALSE, "AD_Format_Error", "VAF", FALSE)
        ELSE body

\* the VAF block: hasattr, `ad and len(ad) > 1`, the inner try
verify_vaf_check(data) ==
    IF data.AD.kind # "absent"
    THEN LET ad == data.AD
         IN  IF ~ADTruthy(ad) THEN Return(FALSE, "AD_Missing", "VAF", FALSE)
             ELSE LET n == PyLen(ad)
                  IN  IF ~n.ok THEN Raise(n.exc, n.msg, "VAF")
                      ELSE IF n.v > 1 THEN verify_vaf_try(ad)
                      ELSE Return(FALSE, "AD_Missing", "VAF", FALSE)
    ELSE Return(FALSE, "NoAD", "VAF", FALSE)

\* run block a, and block b only when a ran to its end
Then(a, b) == IF a.tag = "fall" THEN b ELSE a

\* passes_filters_body with the DP block written before the GQ block
passes_filters_body_dp_first(rec) ==
    Then(verify_qual_check(rec),
    Then(verify_sample_check(rec),
         LET sample == rec.samples[1]
         IN  Then(verify_dp_check(sample.data),
             Then(verify_gq_check(sample.data),
                  verify_vaf_check(sample.data)))))

\* the body of the outer try: the checks, in the order they are written
passes_filters_body(rec) ==
    Then(verify_qual_check(rec),
    Then(verify_sample_check(rec),
         LET sample == rec.samples[1]
         IN  Then(verify_gq_check(sample.data),
             Then(verify_dp_check(sample.data),
                  verify_vaf_check(sample.data)))))

\* passes_filters with the outer handler written `except ValueError`
passes_filters_except_value_error(rec) ==
    LET body == passes_filters_body(rec)
    IN  CASE body.tag = "return" -> body
          [] body.tag = "raise" ->
                IF body.exc = "ValueError"
                THEN Return(FALSE, "Error: " \o body.msg, body.at, body.divided)
                ELSE body
          [] OTHER -> Return(TRUE, "Passed", "end", body.divided)

\* passes_filters with the outer handler returning str(e) as the reason
passes_filters_bare_message(rec) ==
    LET body == passes_filters_body(rec)
    IN  CASE body.tag = "return" -> body
          [] body.tag = "raise" ->
                Return(FALSE, body.msg, body.at, body.divided)
          [] OTHER -> Return(TRUE, "Passed", "end", body.divided)

\* try: body; except Exception as e: return False, f"Error: {e}";
\* return True, "Passed"
passes_filters(rec) ==
    LET body == passes_filters_body(rec)
    IN  CASE body.tag = "return" -> body
          [] body.tag = "raise" ->
                Return(FALSE, "Error: " \o body.msg, body.at, body.divided)
          [] OTHER -> Return(TRUE, "Passed", "end", body.divided)

----------------------------------------------------------------------------
(* filter_vcf.py: filter_vcf_variant.  The reason field is unused (the     *)
(* function returns a bare bool); `at` names the return statement taken.   *)

\* filter_qual_check with the threshold itself as the default
filter_qual_check_default_threshold(rec) ==
    LET qual == IF rec.QUAL.kind # "None" THEN rec.QUAL.v
                ELSE QUAL_MIN
    IN  IF qual < QUAL_MIN THEN Return(FALSE, "", "QUAL", FALSE)
        ELSE Fall(FALSE)

\* qual = variant.QUAL if variant.QUAL is not None else 0
\* if qual < 30: return False
filter_qual_check(rec) ==
    LET qual == IF rec.QUAL.kind # "None" THEN rec.QUAL.v
                ELSE FILTER_QUAL_DEFAULT
    IN  IF qual < QUAL_MIN THEN Return(FALSE, "", "QUAL", FALSE)
        ELSE Fall(FALSE)

\* if not variant.samples: return False
filter_sample_check(rec) ==
    IF Len(rec.samples) = 0 THEN Return(FALSE, "", "sample", FALSE)
    ELSE Fall(FALSE)

\* gq = getattr(genotype.data, 'GQ', None)
\* if gq is None or int(gq) < 20: return False
filter_gq_check(data) ==
    LET gq == IF data.GQ.kind = "absent" THEN None ELSE data.GQ
    IN  IF gq.kind = "None" THEN Return(FALSE, "", "GQ", FALSE)
        ELSE LET n == PyInt(gq)
             IN  IF ~n.ok THEN Raise(n.exc, n.msg, "GQ")
                 ELSE IF n.v < GQ_MIN THEN Return(FALSE, "", "GQ", FALSE)
                 ELSE Fall(FALSE)

\* dp = getattr(genotype.data, 'DP', None)
\* if dp is None or int(dp) < 12: return False
filter_dp_check(data) ==
    LET dp == IF data.DP.kind = "absent" THEN None ELSE data.DP
    IN  IF dp.kind = "None" THEN Return(FALSE, "", "DP", FALSE)
        ELSE LET n == PyInt(dp)
             IN  IF ~n.ok THEN Raise(n.exc, n.msg, "DP")
                 ELSE IF n.v < DP_MIN THEN Return(FALSE, "", "DP", FALSE)
                 ELSE Fall(FALSE)

\* the statements inside the inner try; zero total reads has no else branch
filter_vaf_try_body(ad) ==
    LET ref_reads == PyInt(ad.items[1])
        alt_reads == PyInt(ad.items[2])
    IN  IF ~ref_reads.ok THEN Raise(ref_reads.exc, ref_reads.msg, "VAF")
        ELSE IF ~alt_reads.ok THEN Raise(alt_reads.exc, alt_reads.msg, "VAF")
        ELSE LET total_reads == ref_reads.v + alt_reads.v
             IN  IF total_reads > 0
                 THEN LET vaf == PyTrueDiv(alt_reads.v, total_reads)
                      IN  IF ~vaf.ok THEN Raise(vaf.exc, vaf.msg, "VAF")
                          ELSE IF VafBelow(vaf.v[1], vaf.v[2])
                          THEN Return(FALSE, "", "VAF", TRUE)
                          ELSE Fall(TRUE)
                 ELSE Fall(FALSE)

\* ad = getattr(genotype.data, 'AD', None); `if ad and len(ad) > 1`;
\* try: ... except (ValueError, IndexError, TypeError): return False;
\* else: return False
filter_vaf_check(data) ==
    LET ad == IF data.AD.kind = "absent" THEN ADNone ELSE data.AD
    IN  IF ~ADTruthy(ad) THEN Return(FALSE, "", "AD_Missing", FALSE)
        ELSE LET n == PyLen(ad)
             IN  IF ~n.ok THEN Raise(n.exc, n.msg, "VAF")
                 ELSE IF n.v > 1
                 THEN LET body == filter_vaf_try_body(ad)
                      IN  IF body.tag = "raise"
                             /\ body.exc \in {"ValueError", "IndexError", "TypeError"}
                          THEN Return(FALSE, "", "AD_except", FALSE)
                          ELSE body
                 ELSE Return(FALSE, "", "AD_Missing", FALSE)

\* the body of the outer try.  Every call object the reader builds has a
\* data attribute, so `if not hasattr(genotype, 'data')` never returns.
filter_vcf_variant_body(rec) ==
    Then(filter_qual_check(rec),
    Then(filter_sample_check(rec),
         LET genotype == rec.samples[1]
         IN  Then(filter_gq_check(genotype.data),
             Then(filter_dp_check(genotype.data),
                  filter_vaf_check(genotype.data)))))

\* try: body; except Exception as e: sys.stderr.write(...); return False;
\* return True
filter_vcf_variant(rec) ==
    LET body == filter_vcf_variant_body(rec)
    IN  CASE body.tag = "return" -> body
          [] body.tag = "raise" ->
                [Return(FALSE, "", "except", body.divided) EXCEPT !.msg = body.msg]
          [] OTHER -> Return(TRUE, "", "end", body.divided)

----------------------------------------------------------------------------
(* The records the VCF reader yields *)

\* QUAL column: "." gives None, a number gives the number
QualValues ==
    {None} \cup {IntV(n) : n \in (QUAL_MIN - Radius)..(QUAL_MIN + Radius)}

\* a FORMAT field: not in FORMAT, ".", an integer, or the text of the entry
\* when the header types the field as String
GQValues ==
    {Absent, None}
      \cup {IntV(n) : n \in (GQ_MIN - Radius)..(GQ_MIN + Radius)}
      \cup {StrV(<<"a", "b", "c">>), StrV(<<"2", "5">>)}

DPValues ==
    {Absent, None}
      \cup {IntV(n) : n \in (DP_MIN - Radius)..(DP_MIN + Radius)}
      \cup {StrV(<<"x">>), StrV(<<"1", "3">>)}

\* AD: not in FORMAT, ".", a scalar (Number=1 header), or a list of entries
ADValues ==
    {ADAbsent, ADNone, ADInt(0), ADInt(7), ADList(<<>>), ADList(<<IntV(9)>>)}
      \cup {ADList(<<IntV(r), IntV(a)>>) : r \in 0..MaxReads, a \in 0..MaxReads}
      \cup {ADList(<<StrV(<<"x">>), IntV(9)>>),
            ADList(<<IntV(5), StrV(<<"x">>)>>),
            ADList(<<None, IntV(9)>>),
            ADList(<<IntV(5), None>>),
            ADList(<<StrV(<<"5">>), StrV(<<"9">>)>>),
            ADList(<<IntV(5), IntV(9), IntV(3)>>),
            ADList(<<IntV(9), IntV(5), IntV(30)>>),
            ADList(<<StrV(<<"5">>), StrV(<<"9">>), StrV(<<"x">>)>>)}

Samples ==
    {[data |-> [GQ |-> g, DP |-> d, AD |-> a]] :
        g \in GQValues, d \in DPValues, a \in ADValues}

Records ==
    {[QUAL |-> q, samples |-> <<>>] : q \in QualValues}
      \cup {[QUAL |-> q, samples |-> <<s>>] : q \in QualValues, s \in Samples}

----------------------------------------------------------------------------
(* The state machine: the reader has yielded a record; the verifier and    *)
(* the filter are each applied to it once                                  *)

Init ==
    /\ record \in Records
    /\ verified = NotCalled
    /\ filtered = NotCalled
    /\ stderr = <<>>
    /\ verifyRun = Off /\ filterRun = Off /\ summary = Off
    /\ analysis = Off /\ stats = Off /\ batch = Off

\* passes, reason = passes_filters(record)
PassesFilters ==
    /\ verified.tag = "none"
    /\ verified' = passes_filters(record)
    /\ UNCHANGED <<record, filtered, stderr>>
    /\ UNCHANGED <<verifyRun, filterRun, summary, analysis, stats, batch>>

\* if filter_vcf_variant(record): ...
FilterVcfVariant ==
    /\ filtered.tag = "none"
    /\ filtered' = filter_vcf_variant(record)
    /\ stderr' = IF filtered'.at = "except"
                 THEN Append(stderr, filtered'.msg) ELSE stderr
    /\ UNCHANGED <<record, verified>>
    /\ UNCHANGED <<verifyRun, filterRun, summary, analysis, stats, batch>>

Next == PassesFilters \/ FilterVcfVariant

Spec == Init /\ [][Next]_vars

----------------------------------------------------------------------------
(* Vocabulary used by the properties *)

VerifyCalled == verified.tag # "none"
FilterCalled == filtered.tag # "none"

Verdict == <<verified.passes, verified.reason>>

HasSample == Len(record.samples) > 0
Data == record.samples[1].data

QualPresent == record.QUAL.kind = "int"
Quality == record.QUAL.v

\* a FORMAT entry that holds a number, and the number it holds
Numeric(x) == x.kind = "int" \/ (x.kind = "str" /\ IsDigits(x.s))
NumberOf(x) == IF x.kind = "int" THEN x.v ELSE ParseDigits(x.s)
\* a FORMAT entry that is present (not ".") and is not a number
NonNumeric(x) == x.kind = "str" /\ ~IsDigits(x.s)

\* alleleDepths = [r, a] with read counts r and a
IsReadPair(ad) ==
    /\ ad.kind = "list"
    /\ Len(ad.items) = 2
    /\ Numeric(ad.items[1])
    /\ Numeric(ad.items[2])
RefReads(ad) == NumberOf(ad.items[1])
AltReads(ad) == NumberOf(ad.items[2])
\* a / (r + a) > 0.45, on the exact fractions
VafAbove(ad) ==
    /\ RefReads(ad) + AltReads(ad) > 0
    /\ AltReads(ad) * 20 > 9 * (RefReads(ad) + AltReads(ad))

\* the criteria of the filter as documented: QUAL > 30, GQ > 20, DP > 12
QualCriterion == QualPresent /\ Quality > 30
GQCriterion == HasSample /\ Numeric(Data.GQ) /\ NumberOf(Data.GQ) > 20
DPCriterion == HasSample /\ Numeric(Data.DP) /\ NumberOf(Data.DP) > 12
VafCriterion == HasSample /\ IsReadPair(Data.AD) /\ VafAbove(Data.AD)

ReasonVocabulary ==
    {"QUAL", "NoSample", "GQ", "NoGQ", "DP", "NoDP", "VAF", "AD_Missing",
     "NoAD", "ZeroReads", "AD_Format_Error"}

\* the messages of the exceptions the called built-ins raise
ExceptionMessages ==
    {PyInt(StrV(<<"x">>)).msg, PyInt(None).msg, PyLen(ADInt(1)).msg,
     PyFloat(StrV(<<"x">>)).msg, PyFloat(None).msg, PyTrueDiv(1, 0).msg}

ErrorReasons == {"Error: " \o m : m \in ExceptionMessages}

----------------------------------------------------------------------------
(* C1..C10: the filter predicate *)

\* C1: every record whose quality is absent or <= 30 (30 included) gets
\* (false, "QUAL") from passes_filters, whatever its other fields are.
C1_LowQualityRejected ==
    (VerifyCalled /\ (~QualPresent \/ Quality <= 30))
        => Verdict = <<FALSE, "QUAL">>

\* the checks of passes_filters, each as the comparison the code makes on
\* the fields of the record, in the documented order
CheckOrder == <<"QUAL", "sample", "GQ", "DP", "VAF">>

CheckViolated ==
    [c \in {"QUAL", "sample", "GQ", "DP", "VAF"} |->
        CASE c = "QUAL" -> ~QualPresent \/ Quality < QUAL_MIN
          [] c = "sample" -> ~HasSample
          [] c = "GQ" -> ~HasSample \/ ~Numeric(Data.GQ)
                            \/ NumberOf(Data.GQ) < GQ_MIN
          [] c = "DP" -> ~HasSample \/ ~Numeric(Data.DP)
                            \/ NumberOf(Data.DP) < DP_MIN
          [] c = "VAF" ->
                ~HasSample
                  \/ Data.AD.kind # "list"
                  \/ Len(Data.AD.items) < 2
                  \/ ~Numeric(Data.AD.items[1])
                  \/ ~Numeric(Data.AD.items[2])
                  \/ LET r == NumberOf(Data.AD.items[1])
                         a == NumberOf(Data.AD.items[2])
                     IN  r + a <= 0 \/ a * VAF_DEN < VAF_NUM * (r + a)]

ViolatedPositions == {i \in 1..Len(CheckOrder) : CheckViolated[CheckOrder[i]]}

EarliestViolated ==
    CheckOrder[CHOOSE i \in ViolatedPositions :
                  \A j \in ViolatedPositions : i <= j]

\* the reasons each check reports
ReasonsOfCheck ==
    [c \in {"QUAL", "sample", "GQ", "DP", "VAF"} |->
        CASE c = "QUAL" -> {"QUAL"}
          [] c = "sample" -> {"NoSample"}
          [] c = "GQ" -> {"GQ", "NoGQ"} \cup ErrorReasons
          [] c = "DP" -> {"DP", "NoDP"} \cup ErrorReasons
          [] c = "VAF" -> {"VAF", "AD_Missing", "NoAD", "ZeroReads",
                           "AD_Format_Error"} \cup ErrorReasons]

C3_GoodRecordPasses ==
    (VerifyCalled /\ QualCriterion /\ GQCriterion /\ DPCriterion /\ VafCriterion)
        => Verdict = <<TRUE, "Passed">>

C3_Witness ==
    /\ VerifyCalled
    /\ QualCriterion /\ GQCriterion /\ DPCriterion /\ VafCriterion
    /\ RefReads(Data.AD) > 0
    /\ Verdict = <<TRUE, "Passed">>

\* C4: with QUAL, sample, GQ and VAF satisfied, depth exactly 12 fails with
\* reason "DP" and depth exactly 13 passes.
C4_DepthBoundary ==
    (VerifyCalled /\ QualCriterion /\ GQCriterion /\ VafCriterion
       /\ Numeric(Data.DP))
        => /\ NumberOf(Data.DP) = 12 => Verdict = <<FALSE, "DP">>
           /\ NumberOf(Data.DP) = 13 => Verdict = <<TRUE, "Passed">>

\* C5: with QUAL and sample satisfied, genotypeQuality exactly 20 fails with
\* reason "GQ", and a call without a GQ field fails with reason "NoGQ".
C5_GenotypeQualityBoundary ==
    (VerifyCalled /\ QualCriterion /\ HasSample)
        => /\ (Numeric(Data.GQ) /\ NumberOf(Data.GQ) = 20)
                => Verdict = <<FALSE, "GQ">>
           /\ Data.GQ.kind = "absent" => Verdict = <<FALSE, "NoGQ">>

\* C6: with QUAL, sample, GQ and DP satisfied, alleleDepths = [11, 9] fails
\* with reason "VAF"; a read pair passes the VAF check only when
\* alt / (ref + alt) is strictly greater than 0.45.
C6_VafBoundary ==
    (VerifyCalled /\ QualCriterion /\ GQCriterion /\ DPCriterion
       /\ IsReadPair(Data.AD))
        => /\ (RefReads(Data.AD) = 11 /\ AltReads(Data.AD) = 9)
                => Verdict = <<FALSE, "VAF">>
           /\ verified.passes => VafAbove(Data.AD)

\* C7: with the QUAL, sample, GQ and DP checks satisfied, alleleDepths =
\* [0, 0] is rejected with reason "ZeroReads": passes_filters returns, no
\* division is made and no exception becomes the reason.
C7_ZeroReadsRejected ==
    (VerifyCalled
       /\ ~CheckViolated["QUAL"] /\ ~CheckViolated["sample"]
       /\ ~CheckViolated["GQ"] /\ ~CheckViolated["DP"]
       /\ IsReadPair(Data.AD)
       /\ RefReads(Data.AD) = 0 /\ AltReads(Data.AD) = 0)
        => /\ verified.tag = "return"
           /\ Verdict = <<FALSE, "ZeroReads">>
           /\ ~verified.divided

C7_Witness ==
    /\ VerifyCalled
    /\ QualCriterion /\ GQCriterion /\ DPCriterion
    /\ Data.AD = ADList(<<IntV(0), IntV(0)>>)
    /\ verified.reason = "ZeroReads"

\* a GQ, DP or consulted AD entry that is present and is not a number
MalformedField ==
    /\ HasSample
    /\ \/ NonNumeric(Data.GQ)
       \/ NonNumeric(Data.DP)
       \/ /\ Data.AD.kind = "list"
          /\ Len(Data.AD.items) > 1
          /\ NonNumeric(Data.AD.items[1]) \/ NonNumeric(Data.AD.items[2])

C9_ReasonVocabulary ==
    VerifyCalled =>
        /\ verified.passes <=> verified.reason = "Passed"
        /\ ~verified.passes =>
              verified.reason \in ReasonVocabulary \cup ErrorReasons

C9_Witness ==
    /\ VerifyCalled
    /\ ~verified.passes
    /\ verified.reason \in ErrorReasons
    /\ NonNumeric(Data.GQ)

\* C10: the two defaults for an absent quality (0 in filter_vcf_variant, -1
\* in passes_filters) give the same outcome: a record without quality is
\* rejected by both, and for every quality the two QUAL checks agree.
C10_QualDefaultsAgree ==
    (VerifyCalled /\ FilterCalled)
        => /\ ~QualPresent => (~verified.passes /\ ~filtered.passes)
           /\ (verified.at = "QUAL") <=> (filtered.at = "QUAL")

C10_Witness ==
    /\ VerifyCalled /\ FilterCalled
    /\ ~QualPresent
    /\ verified.at = "QUAL"
    /\ filtered.at = "QUAL"
    /\ ~filtered.passes

----------------------------------------------------------------------------
(* Directories of VCF files *)

\* bounds of the explored directories
MaxFiles == 2
MaxFileLen == 2

\* a record with one genotype call holding integers
MkRecord(qual, gq, dp, ref_reads, alt_reads) ==
    [QUAL |-> IntV(qual),
     samples |-> <<[data |-> [GQ |-> IntV(gq), DP |-> IntV(dp),
                              AD |-> ADList(<<IntV(ref_reads), IntV(alt_reads)>>)]]>>]

GoodRecord == MkRecord(31, 21, 13, 5, 9)
LowDepthRecord == MkRecord(31, 21, 11, 5, 9)
ZeroReadsRecord == MkRecord(31, 21, 13, 0, 0)

DirRecords == {GoodRecord, LowDepthRecord, ZeroReadsRecord}

SeqsUpTo(S, n) == UNION {[1..k -> S] : k \in 0..n}

\* what the reader does once the records of the file are consumed: the
\* iteration ends, or it raises a parse error, or another exception
Endings == {"eof", "ParseError", "Exception"}

\* a directory entry: whether its name ends in ".vcf", and for a VCF file
\* the records the reader yields and how the reading ends.  The name of an
\* entry is its position in the listing.
VcfFiles ==
    {[vcf |-> TRUE, records |-> r, ending |-> e] :
        r \in SeqsUpTo(DirRecords, MaxFileLen), e \in Endings}
OtherFile == [vcf |-> FALSE, records |-> <<>>, ending |-> "eof"]

\* os.path.exists(dir) and os.listdir(dir)
Directories ==
    {[exists |-> FALSE, files |-> <<>>]}
      \cup {[exists |-> TRUE, files |-> f] :
              f \in SeqsUpTo(VcfFiles \cup {OtherFile}, MaxFiles)}

----------------------------------------------------------------------------
(* verify_vcf.py: verify_filtered_vcf *)

\* FileVerdict with the test written failed_variants > 1
FileVerdict_more_than_one(failed_variants) ==
    IF failed_variants > 1 THEN "failed" ELSE "passed"

\* if failed_variants > 0: failed_files.append(filename)
\* else: passed_files.append(filename)
FileVerdict(failed_variants) ==
    IF failed_variants > 0 THEN "failed" ELSE "passed"

\* an entry of failed_files: the file name and the marker appended to it
FailedEntry(name, marker) == [name |-> name, marker |-> marker]

VerifyInit ==
    \E d \in Directories :
        verifyRun = [pc |-> "start", dir |-> d, i |-> 1, pos |-> 0,
                     total_variants |-> 0, failed_variants |-> 0,
                     passed_files |-> <<>>, failed_files |-> <<>>,
                     stderr |-> <<>>, reported |-> FALSE,
                     summary |-> [printed |-> FALSE, passed |-> <<>>,
                                  failed |-> <<>>]]

VerifyOthers == <<record, verified, filtered, stderr,
                  filterRun, summary, analysis, stats, batch>>

VerifyFile == verifyRun.dir.files[verifyRun.i]

\* if not os.path.exists(filtered_dir): print(...); return
VerifyMissingDir ==
    /\ verifyRun.pc = "start"
    /\ ~verifyRun.dir.exists
    /\ verifyRun' = [verifyRun EXCEPT !.pc = "done", !.reported = TRUE]
    /\ UNCHANGED VerifyOthers

\* the directory exists: the loop over os.listdir starts
VerifyStart ==
    /\ verifyRun.pc = "start"
    /\ verifyRun.dir.exists
    /\ verifyRun' = [verifyRun EXCEPT !.pc = "loop"]
    /\ UNCHANGED VerifyOthers

\* for filename in os.listdir(...): a name not ending in ".vcf" is skipped
VerifySkipEntry ==
    /\ verifyRun.pc = "loop"
    /\ verifyRun.i <= Len(verifyRun.dir.files)
    /\ ~VerifyFile.vcf
    /\ verifyRun' = [verifyRun EXCEPT !.i = @ + 1]
    /\ UNCHANGED VerifyOthers

\* VerifyOpenFile with the two counters initialised once, before the loop
VerifyOpenFile_counters_kept ==
    /\ verifyRun.pc = "loop"
    /\ verifyRun.i <= Len(verifyRun.dir.files)
    /\ VerifyFile.vcf
    /\ verifyRun' = [verifyRun EXCEPT !.pc = "reading", !.pos = 0]
    /\ UNCHANGED VerifyOthers

\* a ".vcf" name: total_variants = 0; failed_variants = 0; the file is
\* opened and the reader is built
VerifyOpenFile ==
    /\ verifyRun.pc = "loop"
    /\ verifyRun.i <= Len(verifyRun.dir.files)
    /\ VerifyFile.vcf
    /\ verifyRun' = [verifyRun EXCEPT !.pc = "reading", !.pos = 0,
                                      !.total_variants = 0,
                                      !.failed_variants = 0]
    /\ UNCHANGED VerifyOthers

\* for record in vcf_reader: total_variants += 1; passes_filters(record);
\* a failing record is counted and written to stderr.  An exception out of
\* the body is handled by `except Exception`.
VerifyRecord ==
    /\ verifyRun.pc = "reading"
    /\ verifyRun.pos < Len(VerifyFile.records)
    /\ LET rec == VerifyFile.records[verifyRun.pos + 1]
           result == passes_filters(rec)
       IN  verifyRun' =
             IF result.tag = "raise"
             THEN [verifyRun EXCEPT
                     !.total_variants = @ + 1,
                     !.failed_files =
                        Append(@, FailedEntry(verifyRun.i, "(Unexpected Error)")),
                     !.i = @ + 1, !.pc = "loop"]
             ELSE [verifyRun EXCEPT
                     !.pos = @ + 1,
                     !.total_variants = @ + 1,
                     !.failed_variants = IF result.passes THEN @ ELSE @ + 1,
                     !.stderr = IF result.passes THEN @
                                ELSE Append(@, [name |-> verifyRun.i,
                                                reason |-> result.reason])]
    /\ UNCHANGED VerifyOthers

\* VerifyParseError ending the loop over the directory
VerifyParseError_break ==
    /\ verifyRun.pc = "reading"
    /\ verifyRun.pos = Len(VerifyFile.records)
    /\ VerifyFile.ending = "ParseError"
    /\ verifyRun' = [verifyRun EXCEPT
                       !.failed_files =
                          Append(@, FailedEntry(verifyRun.i, "(Parse Error)")),
                       !.i = Len(verifyRun.dir.files) + 1, !.pc = "loop"]
    /\ UNCHANGED VerifyOthers

\* except vcf.parser.ParseError: the file is recorded as failed with
\* "(Parse Error)"; continue
VerifyParseError ==
    /\ verifyRun.pc = "reading"
    /\ verifyRun.pos = Len(VerifyFile.records)
    /\ VerifyFile.ending = "ParseError"
    /\ verifyRun' = [verifyRun EXCEPT
                       !.failed_files =
                          Append(@, FailedEntry(verifyRun.i, "(Parse Error)")),
                       !.i = @ + 1, !.pc = "loop"]
    /\ UNCHANGED VerifyOthers

\* except Exception: the file is recorded as failed with
\* "(Unexpected Error)"; continue
VerifyUnexpectedError ==
    /\ verifyRun.pc = "reading"
    /\ verifyRun.pos = Len(VerifyFile.records)
    /\ VerifyFile.ending = "Exception"
    /\ verifyRun' = [verifyRun EXCEPT
                       !.failed_files =
                          Append(@, FailedEntry(verifyRun.i, "(Unexpected Error)")),
                       !.i = @ + 1, !.pc = "loop"]
    /\ UNCHANGED VerifyOthers

\* the reader is exhausted: the file is put on one of the two lists
VerifyEndOfFile ==
    /\ verifyRun.pc = "reading"
    /\ verifyRun.pos = Len(VerifyFile.records)
    /\ VerifyFile.ending = "eof"
    /\ verifyRun' =
         IF FileVerdict(verifyRun.failed_variants) = "failed"
         THEN [verifyRun EXCEPT
                 !.failed_files = Append(@, FailedEntry(verifyRun.i, "")),
                 !.i = @ + 1, !.pc = "loop"]
         ELSE [verifyRun EXCEPT
                 !.passed_files = Append(@, verifyRun.i),
                 !.i = @ + 1, !.pc = "loop"]
    /\ UNCHANGED VerifyOthers

\* after the loop: the two groups of the summary are printed
VerifySummary ==
    /\ verifyRun.pc = "loop"
    /\ verifyRun.i > Len(verifyRun.dir.files)
    /\ verifyRun' = [verifyRun EXCEPT
                       !.pc = "done",
                       !.summary = [printed |-> TRUE,
                                    passed |-> verifyRun.passed_files,
                                    failed |-> verifyRun.failed_files]]
    /\ UNCHANGED VerifyOthers

VerifyNext ==
    \/ VerifyMissingDir
    \/ VerifyStart
    \/ VerifySkipEntry
    \/ VerifyOpenFile
    \/ VerifyRecord
    \/ VerifyParseError
    \/ VerifyUnexpectedError
    \/ VerifyEndOfFile
    \/ VerifySummary

SpecVerifyInit ==
    /\ VerifyInit
    /\ record = GoodRecord /\ verified = NotCalled /\ filtered = NotCalled
    /\ stderr = <<>>
    /\ filterRun = Off /\ summary = Off
    /\ analysis = Off /\ stats = Off /\ batch = Off

SpecVerify == SpecVerifyInit /\ [][VerifyNext]_vars

----------------------------------------------------------------------------
(* C11, C12: the directory-level verifier *)

VerifyFiles == verifyRun.dir.files

\* the pass over entry k of the listing is over
VerifyProcessed(k) == verifyRun.pc \in {"loop", "reading", "done"} /\ k < verifyRun.i

TimesPassed(k) ==
    Cardinality({j \in 1..Len(verifyRun.passed_files) :
                    verifyRun.passed_files[j] = k})
FailedEntriesOf(k) ==
    {j \in 1..Len(verifyRun.failed_files) : verifyRun.failed_files[j].name = k}

\* no record of the file fails passes_filters
AllRecordsPass(file) ==
    \A j \in 1..Len(file.records) : passes_filters(file.records[j]).passes

\* one all-passing file and one file holding a single record that fails
\* with reason "DP"
ExampleDirectory ==
    /\ verifyRun.dir.exists
    /\ Len(VerifyFiles) = 2
    /\ \A k \in 1..2 : VerifyFiles[k].vcf /\ VerifyFiles[k].ending = "eof"
    /\ \E k \in 1..2 :
          /\ Len(VerifyFiles[k].records) > 0
          /\ AllRecordsPass(VerifyFiles[k])
          /\ Len(VerifyFiles[3 - k].records) = 1
          /\ passes_filters(VerifyFiles[3 - k].records[1]).reason = "DP"

\* C11: a readable file is classified as passed exactly when none of its
\* records fails passes_filters (a file without records passes), it is in
\* exactly one group, the summary prints the groups as built, and the
\* example directory yields 1 passed file and 1 failed file.
C11_FilePassedIffNoRecordFails ==
    /\ \A k \in 1..Len(VerifyFiles) :
          (VerifyProcessed(k) /\ VerifyFiles[k].vcf /\ VerifyFiles[k].ending = "eof")
            => /\ TimesPassed(k) = 1 <=> AllRecordsPass(VerifyFiles[k])
               /\ TimesPassed(k) + Cardinality(FailedEntriesOf(k)) = 1
               /\ \A j \in FailedEntriesOf(k) : verifyRun.failed_files[j].marker = ""
    /\ verifyRun.summary.printed =>
          /\ verifyRun.summary.passed = verifyRun.passed_files
          /\ verifyRun.summary.failed = verifyRun.failed_files
    /\ (verifyRun.pc = "done" /\ ExampleDirectory) =>
          /\ Len(verifyRun.summary.passed) = 1
          /\ Len(verifyRun.summary.failed) = 1

C11_Witness ==
    /\ verifyRun.pc = "done"
    /\ ExampleDirectory
    /\ verifyRun.summary.printed
    /\ Len(verifyRun.summary.passed) = 1
    /\ Len(verifyRun.summary.failed) = 1

\* C12: a file whose reading raises a parse error, before the first record
\* or after some records, is recorded as failed with "(Parse Error)" and
\* never as passed; the run goes on to the next file, and the files before
\* and after it are classified by their own records.
C12_ParseErrorFileFailsRunContinues ==
    /\ \A k \in 1..Len(VerifyFiles) :
          (VerifyProcessed(k) /\ VerifyFiles[k].vcf)
            => /\ VerifyFiles[k].ending = "ParseError" =>
                    /\ TimesPassed(k) = 0
                    /\ Cardinality(FailedEntriesOf(k)) = 1
                    /\ \A j \in FailedEntriesOf(k) :
                          verifyRun.failed_files[j].marker = "(Parse Error)"
               /\ VerifyFiles[k].ending = "eof" =>
                    (TimesPassed(k) = 1 <=> AllRecordsPass(VerifyFiles[k]))
    /\ (verifyRun.pc = "done" /\ verifyRun.dir.exists) =>
          \A k \in 1..Len(VerifyFiles) :
              VerifyFiles[k].vcf =>
                  TimesPassed(k) + Cardinality(FailedEntriesOf(k)) = 1

\* a parse error after one checked record, then a file that passes
C12_Witness ==
    /\ verifyRun.pc = "done"
    /\ Len(VerifyFiles) = 2
    /\ VerifyFiles[1].vcf /\ VerifyFiles[1].ending = "ParseError"
    /\ VerifyFiles[1].records = <<GoodRecord>>
    /\ verifyRun.failed_files = <<FailedEntry(1, "(Parse Error)")>>
    /\ VerifyFiles[2].vcf /\ VerifyFiles[2].ending = "eof"
    /\ verifyRun.passed_files = <<2>>

----------------------------------------------------------------------------
(* summarize_report.py: summarize_verification_report.  A line of the      *)
(* report is a sequence of tokens; "failed", "(" and ")" are the tokens    *)
(* the code looks for.                                                     *)

\* bounds of the explored reports
MaxSections == 2
MaxLines == 3

\* "failed" in line
ContainsFailed(line) == \E i \in 1..Len(line) : line[i] = "failed"

\* the positions where `failed \(` matches and a ")" follows
MatchStarts(line) ==
    {i \in 1..Len(line) :
        /\ line[i] = "failed"
        /\ i + 1 <= Len(line) /\ line[i + 1] = "("
        /\ \E j \in (i + 2)..Len(line) : line[j] = ")"}

NoMatch == [found |-> FALSE, group |-> <<>>]

\* re.search(r'failed \((.*?)\)', line): the leftmost match, its group
\* ending before the first ")" after the opening parenthesis
ReasonMatch(line) ==
    IF MatchStarts(line) = {} THEN NoMatch
    ELSE LET i == CHOOSE a \in MatchStarts(line) :
                      \A b \in MatchStarts(line) : a <= b
             j == CHOOSE a \in (i + 2)..Len(line) :
                      /\ line[a] = ")"
                      /\ \A b \in (i + 2)..(a - 1) : line[b] # ")"
         IN  [found |-> TRUE, group |-> SubSeq(line, i + 2, j - 1)]

(* A dict, as the sequence of its items in insertion order *)

DictHas(d, key) == \E i \in 1..Len(d) : d[i].key = key

\* d.get(key, default)
DictGet(d, key, default) ==
    IF DictHas(d, key)
    THEN d[CHOOSE i \in 1..Len(d) : d[i].key = key].val
    ELSE default

\* d[key] = val: an existing key keeps its place, a new key goes last
DictSet(d, key, val) ==
    IF DictHas(d, key)
    THEN [i \in 1..Len(d) |-> IF d[i].key = key
                              THEN [key |-> key, val |-> val] ELSE d[i]]
    ELSE Append(d, [key |-> key, val |-> val])

\* the loop over the lines of a section that fills failed_reasons
RECURSIVE TallyReasons(_, _)
TallyReasons(lines, failed_reasons) ==
    IF lines = <<>> THEN failed_reasons
    ELSE LET line == Head(lines)
             reason_match == IF ContainsFailed(line) THEN ReasonMatch(line)
                             ELSE NoMatch
         IN  TallyReasons(Tail(lines),
                 IF reason_match.found
                 THEN DictSet(failed_reasons, reason_match.group,
                              DictGet(failed_reasons, reason_match.group, 0) + 1)
                 ELSE failed_reasons)

\* MaxKey taking a later key of equal count
RECURSIVE MaxKey_last_of_equals(_, _)
MaxKey_last_of_equals(d, best) ==
    IF d = <<>> THEN best.key
    ELSE MaxKey_last_of_equals(Tail(d),
             IF Head(d).val >= best.val THEN Head(d) ELSE best)

\* max(d, key=d.get) from the item `best` on: the keys are visited in
\* insertion order and a key replaces the best one only with a greater count
RECURSIVE MaxKey(_, _)
MaxKey(d, best) ==
    IF d = <<>> THEN best.key
    ELSE MaxKey(Tail(d), IF Head(d).val > best.val THEN Head(d) ELSE best)

\* most_frequent_reason of a failed section
MostFrequentReason(failed_reasons) ==
    IF failed_reasons # <<>>
    THEN MaxKey(Tail(failed_reasons), Head(failed_reasons))
    ELSE <<"Unknown">>

\* the lines between the file name and the closing line of a section
BodyLines ==
    {<<"Variant", "failed", "(", "QUAL", ")">>,
     <<"Variant", "failed", "(", "DP", ")">>,
     <<"Variant", "failed", "(", "Error: int", "(", ")", "argument", ")">>,
     <<"Variant", "passed">>,
     <<"Variant", "failed">>}

ClosingLines == {<<"PASS_MARK", "all variants passed">>,
                 <<"FAIL_MARK", "variants", "failed">>}

\* last_line.startswith of the check mark
StartsWithPassMark(line) == Len(line) > 0 /\ line[1] = "PASS_MARK"

\* the name of the k-th file of the report
ReportFileName(k) == "file" \o ToString(k)

\* section.strip().split('\n') of the section of file `name`
SectionsOf(name) ==
    {<<<<name>>>> \o body \o <<closing>> :
        body \in SeqsUpTo(BodyLines, MaxLines), closing \in ClosingLines}

SummaryInit ==
    \E n \in 0..MaxSections :
        summary = [pc |-> "split", n_sections |-> n, k |-> 0,
                   lines |-> <<>>, failed_reasons |-> <<>>,
                   passed_files |-> <<>>, failed_files |-> <<>>,
                   total_files |-> 0, printed |-> ""]

SummaryOthers == <<record, verified, filtered, stderr,
                   verifyRun, filterRun, analysis, stats, batch>>

\* if not file_sections: print("No files found in the report."); return
SummarizeNoSections ==
    /\ summary.pc = "split"
    /\ summary.n_sections = 0
    /\ summary' = [summary EXCEPT !.pc = "done", !.printed = "No files found"]
    /\ UNCHANGED SummaryOthers

\* one pass of `for section in file_sections`, for the next section of the
\* report
SummarizeSection ==
    /\ summary.pc = "split"
    /\ summary.k < summary.n_sections
    /\ \E lines \in SectionsOf(ReportFileName(summary.k + 1)) :
          LET filename == lines[1][1]
              last_line == lines[Len(lines)]
              failed_reasons == TallyReasons(lines, <<>>)
          IN  summary' =
                IF StartsWithPassMark(last_line)
                THEN [summary EXCEPT
                        !.k = @ + 1, !.lines = lines,
                        !.total_files = @ + 1,
                        !.failed_reasons = <<>>,
                        !.passed_files = Append(@, filename)]
                ELSE [summary EXCEPT
                        !.k = @ + 1, !.lines = lines,
                        !.total_files = @ + 1,
                        !.failed_reasons = failed_reasons,
                        !.failed_files =
                           DictSet(@, filename, MostFrequentReason(failed_reasons))]
    /\ UNCHANGED SummaryOthers

\* the summary is printed after the last section
SummarizePrint ==
    /\ summary.pc = "split"
    /\ summary.n_sections > 0
    /\ summary.k = summary.n_sections
    /\ summary' = [summary EXCEPT !.pc = "done", !.printed = "summary"]
    /\ UNCHANGED SummaryOthers

SummaryNext == SummarizeNoSections \/ SummarizeSection \/ SummarizePrint

SpecSummaryInit ==
    /\ SummaryInit
    /\ record = GoodRecord /\ verified = NotCalled /\ filtered = NotCalled
    /\ stderr = <<>>
    /\ verifyRun = Off /\ filterRun = Off
    /\ analysis = Off /\ stats = Off /\ batch = Off

SpecSummary == SpecSummaryInit /\ [][SummaryNext]_vars

(* C13 *)

\* the reasons on the lines of the section last processed, with the line
\* each is first seen on, and the number of lines carrying each
ReasonLines(reason) ==
    {i \in 1..Len(summary.lines) :
        /\ ReasonMatch(summary.lines[i]).found
        /\ ReasonMatch(summary.lines[i]).group = reason}
SectionReasons ==
    {ReasonMatch(summary.lines[i]).group :
        i \in {j \in 1..Len(summary.lines) : ReasonMatch(summary.lines[j]).found}}
FirstLine(reason) ==
    CHOOSE i \in ReasonLines(reason) : \A j \in ReasonLines(reason) : i <= j

LastSectionFailed ==
    /\ summary.k > 0
    /\ ~StartsWithPassMark(summary.lines[Len(summary.lines)])

\* C13: the reason reported for a failed file has the maximum count among
\* the reasons of that file's failing records, and among the reasons with
\* that count it is the one first met in the file.
C13_MostFrequentReasonFirstOfMaxima ==
    (LastSectionFailed /\ SectionReasons # {})
        => LET reported == DictGet(summary.failed_files, ReportFileName(summary.k), <<>>)
           IN  /\ reported \in SectionReasons
               /\ \A r \in SectionReasons :
                     /\ Cardinality(ReasonLines(r)) <= Cardinality(ReasonLines(reported))
                     /\ Cardinality(ReasonLines(r)) = Cardinality(ReasonLines(reported))
                          => FirstLine(reported) <= FirstLine(r)

\* two reasons tie; the first met is reported
C13_Witness ==
    /\ LastSectionFailed
    /\ Cardinality(SectionReasons) = 2
    /\ \A r \in SectionReasons : Cardinality(ReasonLines(r)) = 1
    /\ DictGet(summary.failed_files, ReportFileName(summary.k), <<>>) = <<"DP">>
    /\ summary.pc = "done"

----------------------------------------------------------------------------
(* filter_vcf.py: filter_vcf_directory *)

RECURSIVE SumInts(_)
\* sum(map(int, ad)): the sum, or the exception of the first int() that fails
SumInts(items) ==
    IF items = <<>> THEN Ok(0)
    ELSE LET n == PyInt(Head(items))
             rest == SumInts(Tail(items))
         IN  IF ~n.ok THEN n
             ELSE IF ~rest.ok THEN rest
             ELSE Ok(n.v + rest.v)

\* the display statements after a record is written:
\* vaf = float(AD[1]) / sum(map(int, AD)); dp = ...DP; print(...)
\* except (ValueError, TypeError, AttributeError): print("... display failed")
DisplayVariant(rec) ==
    LET ad == rec.samples[1].data.AD
        alt == PyFloat(ad.items[2])
        total == SumInts(ad.items)
        vaf == IF ~alt.ok THEN alt
               ELSE IF ~total.ok THEN total
               ELSE PyTrueDiv(alt.v, total.v)
    IN  IF vaf.ok THEN Return(TRUE, "", "printed", TRUE)
        ELSE IF vaf.exc \in {"ValueError", "TypeError", "AttributeError"}
        THEN Return(TRUE, "", "display failed", FALSE)
        ELSE Raise(vaf.exc, vaf.msg, "display")

\* the output directory: it exists, or os.makedirs creates it, or
\* os.makedirs raises OSError
OutputDirStates == {"exists", "creatable", "uncreatable"}

FilterDirInit ==
    \E d \in Directories, o \in OutputDirStates :
        filterRun = [pc |-> "start", input |-> d, output_dir |-> o,
                     i |-> 1, pos |-> 0, records_written |-> 0,
                     output |-> [k \in 1..Len(d.files) |-> <<>>],
                     opened |-> {},
                     evaluated |-> [k \in 1..Len(d.files) |-> <<>>],
                     stdout |-> <<>>, stderr |-> <<>>, escaped |-> ""]

FilterDirOthers == <<record, verified, filtered, stderr,
                     verifyRun, summary, analysis, stats, batch>>

FilterFile == filterRun.input.files[filterRun.i]

\* os.makedirs(output_dir) raises OSError: the error is written, return
FilterMakeDirFails ==
    /\ filterRun.pc = "start"
    /\ filterRun.output_dir = "uncreatable"
    /\ filterRun' = [filterRun EXCEPT
                       !.pc = "done",
                       !.stderr = Append(@, "Error creating directory")]
    /\ UNCHANGED FilterDirOthers

\* the output directory exists or is created
FilterOutputDirReady ==
    /\ filterRun.pc = "start"
    /\ filterRun.output_dir # "uncreatable"
    /\ filterRun' = [filterRun EXCEPT
                       !.pc = "listdir",
                       !.output_dir = "exists",
                       !.stdout = IF filterRun.output_dir = "creatable"
                                  THEN Append(@, "Created output directory")
                                  ELSE @]
    /\ UNCHANGED FilterDirOthers

\* os.listdir(input_dir) of a directory that does not exist raises
\* FileNotFoundError, outside every try block
FilterListDirMissing ==
    /\ filterRun.pc = "listdir"
    /\ ~filterRun.input.exists
    /\ filterRun' = [filterRun EXCEPT !.pc = "raised",
                                      !.escaped = "FileNotFoundError"]
    /\ UNCHANGED FilterDirOthers

\* os.listdir(input_dir) returns the listing
FilterListDir ==
    /\ filterRun.pc = "listdir"
    /\ filterRun.input.exists
    /\ filterRun' = [filterRun EXCEPT !.pc = "loop"]
    /\ UNCHANGED FilterDirOthers

\* a name not ending in ".vcf" is skipped
FilterSkipEntry ==
    /\ filterRun.pc = "loop"
    /\ filterRun.i <= Len(filterRun.input.files)
    /\ ~FilterFile.vcf
    /\ filterRun' = [filterRun EXCEPT !.i = @ + 1]
    /\ UNCHANGED FilterDirOthers

\* the input is opened, the reader built, the output opened for writing,
\* records_written = 0
FilterOpenFile ==
    /\ filterRun.pc = "loop"
    /\ filterRun.i <= Len(filterRun.input.files)
    /\ FilterFile.vcf
    /\ filterRun' = [filterRun EXCEPT
                       !.pc = "reading", !.pos = 0, !.records_written = 0,
                       !.opened = @ \cup {filterRun.i}]
    /\ UNCHANGED FilterDirOthers

\* one pass of `for record in vcf_reader`: the filter is applied; a record
\* it accepts is written and displayed; an exception out of the display
\* statements is handled by `except Exception`, which ends the file
FilterRecord ==
    /\ filterRun.pc = "reading"
    /\ filterRun.pos < Len(FilterFile.records)
    /\ LET rec == FilterFile.records[filterRun.pos + 1]
           result == filter_vcf_variant(rec)
           display == DisplayVariant(rec)
           evaluated == [filterRun EXCEPT
                           !.pos = @ + 1,
                           !.evaluated[filterRun.i] = Append(@, filterRun.pos + 1),
                           !.stderr = IF result.at = "except"
                                      THEN Append(@, result.msg) ELSE @]
       IN  filterRun' =
             IF ~result.passes THEN evaluated
             ELSE IF display.tag = "raise"
             THEN [evaluated EXCEPT
                     !.output[filterRun.i] = Append(@, rec),
                     !.records_written = @ + 1,
                     !.stderr = Append(@, "An unexpected error occurred"),
                     !.i = @ + 1, !.pc = "loop"]
             ELSE [evaluated EXCEPT
                     !.output[filterRun.i] = Append(@, rec),
                     !.records_written = @ + 1,
                     !.stdout = Append(@, display.at)]
    /\ UNCHANGED FilterDirOthers

\* the reader is exhausted: the result of the file is printed
FilterEndOfFile ==
    /\ filterRun.pc = "reading"
    /\ filterRun.pos = Len(FilterFile.records)
    /\ FilterFile.ending = "eof"
    /\ filterRun' = [filterRun EXCEPT
                       !.stdout = Append(@, IF filterRun.records_written = 0
                                            THEN "No variants passed filters"
                                            ELSE "Successfully filtered"),
                       !.i = @ + 1, !.pc = "loop"]
    /\ UNCHANGED FilterDirOthers

\* except vcf.parser.ParseError: the file is skipped
FilterParseError ==
    /\ filterRun.pc = "reading"
    /\ filterRun.pos = Len(FilterFile.records)
    /\ FilterFile.ending = "ParseError"
    /\ filterRun' = [filterRun EXCEPT
                       !.stderr = Append(@, "Skipping due to a parsing error"),
                       !.i = @ + 1, !.pc = "loop"]
    /\ UNCHANGED FilterDirOthers

\* except Exception: the error is written, the next file follows
FilterUnexpectedError ==
    /\ filterRun.pc = "reading"
    /\ filterRun.pos = Len(FilterFile.records)
    /\ FilterFile.ending = "Exception"
    /\ filterRun' = [filterRun EXCEPT
                       !.stderr = Append(@, "An unexpected error occurred"),
                       !.i = @ + 1, !.pc = "loop"]
    /\ UNCHANGED FilterDirOthers

\* the listing is exhausted: the function returns
FilterDirDone ==
    /\ filterRun.pc = "loop"
    /\ filterRun.i > Len(filterRun.input.files)
    /\ filterRun' = [filterRun EXCEPT !.pc = "done"]
    /\ UNCHANGED FilterDirOthers

FilterDirNext ==
    \/ FilterMakeDirFails
    \/ FilterOutputDirReady
    \/ FilterListDirMissing
    \/ FilterListDir
    \/ FilterSkipEntry
    \/ FilterOpenFile
    \/ FilterRecord
    \/ FilterEndOfFile
    \/ FilterParseError
    \/ FilterUnexpectedError
    \/ FilterDirDone

SpecFilterDirInit ==
    /\ FilterDirInit
    /\ record = GoodRecord /\ verified = NotCalled /\ filtered = NotCalled
    /\ stderr = <<>>
    /\ verifyRun = Off /\ summary = Off
    /\ analysis = Off /\ stats = Off /\ batch = Off

SpecFilterDir == SpecFilterDirInit /\ [][FilterDirNext]_vars

(* C14, C18 *)

FilterFiles == filterRun.input.files

FilterProcessed(k) ==
    filterRun.pc \in {"loop", "reading", "done"} /\ k < filterRun.i

\* the records of the file that filter_vcf_variant accepts, in file order
PassingRecords(file) ==
    SelectSeq(file.records, LAMBDA rec : filter_vcf_variant(rec).passes)

\* C14: every record of an input file is evaluated by the filter exactly
\* once and is then written or discarded: the output of the file holds
\* exactly its passing records, each once, in input order.
C14_OutputIsThePassingRecords ==
    \A k \in 1..Len(FilterFiles) :
        (FilterProcessed(k) /\ FilterFiles[k].vcf /\ FilterFiles[k].ending = "eof")
          => /\ filterRun.evaluated[k] =
                   [j \in 1..Len(FilterFiles[k].records) |-> j]
             /\ filterRun.output[k] = PassingRecords(FilterFiles[k])

\* C18: a missing input directory, or an output directory that cannot be
\* created, is reported and ends the run: no file is processed and no
\* exception leaves the function.
C18_MissingDirectoryEndsRunQuietly ==
    (~filterRun.input.exists \/ filterRun.output_dir = "uncreatable")
        => /\ filterRun.escaped = ""
           /\ filterRun.opened = {}
           /\ filterRun.pc \in {"done", "raised"} => filterRun.stderr # <<>>

(* C20 *)

\* C20: the filter and the verifier agree on pass/fail: every record that
\* filter_vcf_variant accepts is also accepted by passes_filters.
C20_FilterAcceptedIsVerifierAccepted ==
    (VerifyCalled /\ FilterCalled /\ filtered.passes) => verified.passes

----------------------------------------------------------------------------
(* analyze_input_vcf.py: the statistics of print_stats.  A number is an    *)
(* exact fraction <<numerator, denominator>> with a positive denominator;  *)
(* the floating-point rounding of the library is not modelled.             *)

Rat(n) == <<n, 1>>
RatLeq(a, b) == a[1] * b[2] <= b[1] * a[2]
RatEq(a, b) == a[1] * b[2] = b[1] * a[2]

\* (wa * a + wb * b) / den
RatMix(wa, a, wb, b, den) ==
    <<wa * a[1] * b[2] + wb * b[1] * a[2], den * a[2] * b[2]>>

RECURSIVE InsertSorted(_, _)
InsertSorted(x, sorted) ==
    IF sorted = <<>> THEN <<x>>
    ELSE IF RatLeq(x, Head(sorted)) THEN <<x>> \o sorted
    ELSE <<Head(sorted)>> \o InsertSorted(x, Tail(sorted))

\* the data in ascending order
RECURSIVE SortRats(_)
SortRats(data) ==
    IF data = <<>> THEN <<>>
    ELSE InsertSorted(Head(data), SortRats(Tail(data)))

\* the result of a percentile or median of no data
NaN == <<0, 0>>

EmptyReduction ==
    Raised("ValueError", "zero-size array to reduction operation which has no identity")

\* np.min(data)
NpMin(data) ==
    IF data = <<>> THEN EmptyReduction
    ELSE Ok(SortRats(data)[1])

\* np.max(data)
NpMax(data) ==
    IF data = <<>> THEN EmptyReduction
    ELSE Ok(SortRats(data)[Len(data)])

\* NpPercentile with the rank taken as n * q / 100
NpPercentile_rank_from_n(data, q) ==
    IF data = <<>> THEN Ok(NaN)
    ELSE LET a == SortRats(data)
             n == Len(a)
             rank100 == n * q
             lo == rank100 \div 100
             g == rank100 % 100
             lower == IF lo + 1 < n THEN lo + 1 ELSE n
             upper == IF lo + 2 < n THEN lo + 2 ELSE n
         IN  Ok(RatMix(100 - g, a[lower], g, a[upper], 100))

\* np.percentile(data, q), default method: the data are sorted, the rank
\* is (n - 1) * q / 100, counted from 0, and the value is interpolated
\* linearly between the two neighbouring order statistics
NpPercentile(data, q) ==
    IF data = <<>> THEN Ok(NaN)
    ELSE LET a == SortRats(data)
             n == Len(a)
             rank100 == (n - 1) * q
             lo == rank100 \div 100
             g == rank100 % 100
             lower == lo + 1
             upper == IF lo + 2 < n THEN lo + 2 ELSE n
         IN  Ok(RatMix(100 - g, a[lower], g, a[upper], 100))

\* np.median(data): the middle value, or the mean of the two middle values
NpMedian(data) ==
    IF data = <<>> THEN Ok(NaN)
    ELSE LET a == SortRats(data)
             n == Len(a)
         IN  IF n % 2 = 1 THEN Ok(a[(n + 1) \div 2])
             ELSE Ok(RatMix(1, a[n \div 2], 1, a[(n \div 2) + 1], 2))

NoStats == [min |-> <<0, 1>>, p25 |-> <<0, 1>>, median |-> <<0, 1>>,
            p75 |-> <<0, 1>>, max |-> <<0, 1>>]

\* f"{x:.2f}": the number of hundredths nearest to x, a tie going to the
\* even one (a tie needs x to be an odd multiple of 1/200)
Fmt2f(x) ==
    LET scaled == x[1] * 100
        h == scaled \div x[2]
        rest == scaled % x[2]
    IN  IF 2 * rest > x[2] THEN h + 1
        ELSE IF 2 * rest = x[2] /\ h % 2 = 1 THEN h + 1
        ELSE h

NoText == [min |-> 0, p25 |-> 0, median |-> 0, p75 |-> 0, max |-> 0]

\* what print_stats prints: the "No data collected" line, or the block of
\* the five statistics; or the exception of a library call
StatsOutcome(tag, printed, values, exc, msg) ==
    [tag |-> tag, printed |-> printed, values |-> values,
     text |-> IF printed = "statistics"
              THEN [f \in DOMAIN values |-> Fmt2f(values[f])]
              ELSE NoText,
     exc |-> exc, msg |-> msg]

\* the five library calls, in the order they are made
StatsBlock(data) ==
    LET lo == NpMin(data)
        p25 == NpPercentile(data, 25)
        median == NpMedian(data)
        p75 == NpPercentile(data, 75)
        hi == NpMax(data)
        calls == <<lo, p25, median, p75, hi>>
        bad == {i \in 1..5 : ~calls[i].ok}
    IN  IF bad # {}
        THEN LET first == calls[CHOOSE i \in bad : \A j \in bad : i <= j]
             IN  StatsOutcome("raise", "", NoStats, first.exc, first.msg)
        ELSE StatsOutcome("return", "statistics",
                          [min |-> lo.v, p25 |-> p25.v, median |-> median.v,
                           p75 |-> p75.v, max |-> hi.v], "", "")

\* print_stats without the `if not data` guard
print_stats_unguarded(data) == StatsBlock(data)

\* print_stats(metric_name, data)
print_stats(data) ==
    IF data = <<>>
    THEN StatsOutcome("return", "No data collected", NoStats, "", "")
    ELSE StatsBlock(data)

----------------------------------------------------------------------------
(* analyze_input_vcf.py: analyze_vcf_metrics *)

\* QUAL ".", GQ not in FORMAT, DP ".", no reads
SparseRecord ==
    [QUAL |-> None,
     samples |-> <<[data |-> [GQ |-> Absent, DP |-> None,
                              AD |-> ADList(<<IntV(0), IntV(0)>>)]]>>]
NoSampleRecord == [QUAL |-> IntV(30), samples |-> <<>>]
\* DP typed String in the header and holding text
BadDepthRecord ==
    [QUAL |-> IntV(31),
     samples |-> <<[data |-> [GQ |-> IntV(21), DP |-> StrV(<<"x">>),
                              AD |-> ADList(<<IntV(5), IntV(9)>>)]]>>]

AnalyzeRecords == {GoodRecord, SparseRecord, NoSampleRecord, BadDepthRecord}

\* the reader of analyze_vcf_metrics: every exception, a parse error
\* included, is handled by the one `except Exception`
AnalyzeFiles ==
    {[vcf |-> TRUE, records |-> r, ending |-> e] :
        r \in SeqsUpTo(AnalyzeRecords, MaxFileLen), e \in {"eof", "Exception"}}

AnalyzeListings == SeqsUpTo(AnalyzeFiles \cup {OtherFile}, MaxFiles)

\* the four lists and the exception, if any, that ended the loop body
Collected(quals, dps, gqs, vafs, exc) ==
    [all_quals |-> quals, all_dps |-> dps, all_gqs |-> gqs,
     all_vafs |-> vafs, exc |-> exc]

\* if record.QUAL is not None: all_quals.append(float(record.QUAL))
CollectQual(rec, c) ==
    IF rec.QUAL.kind = "None" THEN c
    ELSE LET q == PyFloat(rec.QUAL)
         IN  IF q.ok THEN [c EXCEPT !.all_quals = Append(@, Rat(q.v))]
             ELSE [c EXCEPT !.exc = q.exc]

\* if hasattr(sample.data, 'DP') and sample.data.DP is not None:
\*     all_dps.append(int(sample.data.DP))
CollectDP(data, c) ==
    IF data.DP.kind \in {"absent", "None"} THEN c
    ELSE LET n == PyInt(data.DP)
         IN  IF n.ok THEN [c EXCEPT !.all_dps = Append(@, Rat(n.v))]
             ELSE [c EXCEPT !.exc = n.exc]

\* the same for GQ
CollectGQ(data, c) ==
    IF data.GQ.kind \in {"absent", "None"} THEN c
    ELSE LET n == PyInt(data.GQ)
         IN  IF n.ok THEN [c EXCEPT !.all_gqs = Append(@, Rat(n.v))]
             ELSE [c EXCEPT !.exc = n.exc]

\* if hasattr(..., 'AD') and AD and len(AD) > 1: the two reads are
\* converted, and alt_reads / total_reads is appended when total_reads > 0
CollectVAF(data, c) ==
    LET ad == data.AD
    IN  IF ad.kind = "absent" \/ ~ADTruthy(ad) THEN c
        ELSE LET n == PyLen(ad)
             IN  IF ~n.ok THEN [c EXCEPT !.exc = n.exc]
                 ELSE IF n.v <= 1 THEN c
                 ELSE LET ref_reads == PyInt(ad.items[1])
                          alt_reads == PyInt(ad.items[2])
                      IN  IF ~ref_reads.ok THEN [c EXCEPT !.exc = ref_reads.exc]
                          ELSE IF ~alt_reads.ok THEN [c EXCEPT !.exc = alt_reads.exc]
                          ELSE LET total_reads == ref_reads.v + alt_reads.v
                               IN  IF total_reads > 0
                                   THEN [c EXCEPT !.all_vafs =
                                           Append(@, PyTrueDiv(alt_reads.v, total_reads).v)]
                                   ELSE c

\* a step of the loop body, skipped once an exception is on its way
AndThen(c, step(_)) == IF c.exc # "" THEN c ELSE step(c)

\* the body of `for record in vcf_reader`
CollectRecord(rec, c) ==
    LET afterQual == CollectQual(rec, c)
    IN  IF afterQual.exc # "" \/ Len(rec.samples) = 0 THEN afterQual
        ELSE LET data == rec.samples[1].data
                 afterDP == CollectDP(data, afterQual)
                 afterGQ == AndThen(afterDP, LAMBDA x : CollectGQ(data, x))
             IN  AndThen(afterGQ, LAMBDA x : CollectVAF(data, x))

AnalyzeInit ==
    \E files \in AnalyzeListings :
        analysis = [pc |-> "loop", files |-> files, i |-> 1, pos |-> 0,
                    series |-> Collected(<<>>, <<>>, <<>>, <<>>, ""),
                    stdout |-> <<>>,
                    report |-> <<>>, escaped |-> ""]

AnalyzeOthers == <<record, verified, filtered, stderr,
                   verifyRun, filterRun, summary, stats, batch>>

AnalyzeFile == analysis.files[analysis.i]

\* if not filename.endswith(".vcf"): continue
AnalyzeSkipEntry ==
    /\ analysis.pc = "loop"
    /\ analysis.i <= Len(analysis.files)
    /\ ~AnalyzeFile.vcf
    /\ analysis' = [analysis EXCEPT !.i = @ + 1]
    /\ UNCHANGED AnalyzeOthers

\* the file is opened and the reader built
AnalyzeOpenFile ==
    /\ analysis.pc = "loop"
    /\ analysis.i <= Len(analysis.files)
    /\ AnalyzeFile.vcf
    /\ analysis' = [analysis EXCEPT !.pc = "reading", !.pos = 0]
    /\ UNCHANGED AnalyzeOthers

\* one pass of the loop body; an exception out of it is printed by
\* `except Exception` and the next file follows
AnalyzeRecord ==
    /\ analysis.pc = "reading"
    /\ analysis.pos < Len(AnalyzeFile.records)
    /\ LET c == CollectRecord(AnalyzeFile.records[analysis.pos + 1], analysis.series)
       IN  analysis' =
             IF c.exc # ""
             THEN [analysis EXCEPT
                     !.series = [c EXCEPT !.exc = ""],
                     !.stdout = Append(@, "Error processing"),
                     !.i = @ + 1, !.pc = "loop"]
             ELSE [analysis EXCEPT !.series = c, !.pos = @ + 1]
    /\ UNCHANGED AnalyzeOthers

\* the reader is exhausted
AnalyzeEndOfFile ==
    /\ analysis.pc = "reading"
    /\ analysis.pos = Len(AnalyzeFile.records)
    /\ AnalyzeFile.ending = "eof"
    /\ analysis' = [analysis EXCEPT !.i = @ + 1, !.pc = "loop"]
    /\ UNCHANGED AnalyzeOthers

\* the reader raises: except Exception prints the error
AnalyzeReaderError ==
    /\ analysis.pc = "reading"
    /\ analysis.pos = Len(AnalyzeFile.records)
    /\ AnalyzeFile.ending = "Exception"
    /\ analysis' = [analysis EXCEPT
                      !.stdout = Append(@, "Error processing"),
                      !.i = @ + 1, !.pc = "loop"]
    /\ UNCHANGED AnalyzeOthers

RECURSIVE PrintAll(_)
\* print_stats on each list in turn; an exception ends the sequence
PrintAll(lists) ==
    IF lists = <<>> THEN <<>>
    ELSE LET out == print_stats(Head(lists))
         IN  IF out.tag = "raise" THEN <<out>>
             ELSE <<out>> \o PrintAll(Tail(lists))

\* after the loop: print_stats for QUAL, DP, GQ and VAF
AnalyzeReport ==
    /\ analysis.pc = "loop"
    /\ analysis.i > Len(analysis.files)
    /\ LET outs == PrintAll(<<analysis.series.all_quals, analysis.series.all_dps,
                              analysis.series.all_gqs, analysis.series.all_vafs>>)
           last == outs[Len(outs)]
       IN  analysis' = [analysis EXCEPT
                          !.report = outs,
                          !.escaped = IF last.tag = "raise" THEN last.exc ELSE "",
                          !.pc = IF last.tag = "raise" THEN "raised" ELSE "done"]
    /\ UNCHANGED AnalyzeOthers

AnalyzeNext ==
    \/ AnalyzeSkipEntry
    \/ AnalyzeOpenFile
    \/ AnalyzeRecord
    \/ AnalyzeEndOfFile
    \/ AnalyzeReaderError
    \/ AnalyzeReport

SpecAnalyzeInit ==
    /\ AnalyzeInit
    /\ record = GoodRecord /\ verified = NotCalled /\ filtered = NotCalled
    /\ stderr = <<>>
    /\ verifyRun = Off /\ filterRun = Off /\ summary = Off
    /\ stats = Off /\ batch = Off

SpecAnalyze == SpecAnalyzeInit /\ [][AnalyzeNext]_vars

(* C15, C16 *)

\* the records the readers yield, over the whole listing, in order
RECURSIVE YieldedRecords(_)
YieldedRecords(files) ==
    IF files = <<>> THEN <<>>
    ELSE (IF Head(files).vcf THEN Head(files).records ELSE <<>>)
           \o YieldedRecords(Tail(files))

MapSeq(seq, f(_)) == [k \in 1..Len(seq) |-> f(seq[k])]

FirstCall(rec) == rec.samples[1].data

\* the records in which each field is present and well-formed
HasQual(rec) == rec.QUAL.kind = "int"
HasDepth(rec) == Len(rec.samples) > 0 /\ Numeric(FirstCall(rec).DP)
HasGQ(rec) == Len(rec.samples) > 0 /\ Numeric(FirstCall(rec).GQ)
HasVaf(rec) ==
    /\ Len(rec.samples) > 0
    /\ FirstCall(rec).AD.kind = "list"
    /\ Len(FirstCall(rec).AD.items) > 1
    /\ Numeric(FirstCall(rec).AD.items[1])
    /\ Numeric(FirstCall(rec).AD.items[2])
    /\ NumberOf(FirstCall(rec).AD.items[1]) + NumberOf(FirstCall(rec).AD.items[2]) > 0

\* C15: each of the four series holds exactly the values of the records in
\* which its field is present and well-formed (VAF only with reads),
\* whatever the other fields of the same or of other records are.
C15_SeriesHoldEveryWellFormedValue ==
    analysis.pc = "done" =>
        LET recs == YieldedRecords(analysis.files)
        IN  /\ analysis.series.all_quals =
                  MapSeq(SelectSeq(recs, HasQual), LAMBDA r : Rat(r.QUAL.v))
            /\ analysis.series.all_dps =
                  MapSeq(SelectSeq(recs, HasDepth),
                         LAMBDA r : Rat(NumberOf(FirstCall(r).DP)))
            /\ analysis.series.all_gqs =
                  MapSeq(SelectSeq(recs, HasGQ),
                         LAMBDA r : Rat(NumberOf(FirstCall(r).GQ)))
            /\ analysis.series.all_vafs =
                  MapSeq(SelectSeq(recs, HasVaf),
                         LAMBDA r : <<NumberOf(FirstCall(r).AD.items[2]),
                                      NumberOf(FirstCall(r).AD.items[1])
                                        + NumberOf(FirstCall(r).AD.items[2])>>)

SeriesOf(m) ==
    CASE m = 1 -> analysis.series.all_quals
      [] m = 2 -> analysis.series.all_dps
      [] m = 3 -> analysis.series.all_gqs
      [] m = 4 -> analysis.series.all_vafs

\* C16: the run ends without an exception; a series that ends up empty is
\* reported as "no data" and no statistic is computed for it, and the
\* non-empty series get their statistics.
C16_EmptySeriesReportedAsNoData ==
    /\ analysis.escaped = ""
    /\ analysis.pc # "raised"
    /\ analysis.pc = "done" =>
          /\ Len(analysis.report) = 4
          /\ \A m \in 1..4 :
                /\ analysis.report[m].tag = "return"
                /\ SeriesOf(m) = <<>> =>
                      /\ analysis.report[m].printed = "No data collected"
                      /\ analysis.report[m].values = NoStats
                /\ SeriesOf(m) # <<>> =>
                      analysis.report[m].printed = "statistics"

\* a listing with records but without reads: VAF has no data, QUAL has
C16_Witness ==
    /\ analysis.pc = "done"
    /\ Len(analysis.files) > 0
    /\ analysis.series.all_vafs = <<>>
    /\ analysis.series.all_quals # <<>>
    /\ analysis.report[4].printed = "No data collected"
    /\ analysis.report[1].printed = "statistics"

----------------------------------------------------------------------------
(* print_stats as a function of the series *)

MaxSeriesLen == 4
MaxValue == 3

OneToTen == [k \in 1..10 |-> Rat(k)]
\* the same values in another order
OneToTenShuffled == [k \in 1..10 |-> Rat(((k * 3) % 11))]

\* the lists print_stats is applied to
StatsInputs ==
    SeqsUpTo({Rat(v) : v \in 0..MaxValue}, MaxSeriesLen)
        \cup {OneToTen, OneToTenShuffled}

StatsOthers == <<record, verified, filtered, stderr,
                 verifyRun, filterRun, summary, analysis, batch>>

StatsInit ==
    \E data \in StatsInputs :
        stats = [pc |-> "ready", data |-> data,
                 out |-> StatsOutcome("none", "", NoStats, "", "")]

\* print_stats(metric_name, data)
PrintStats ==
    /\ stats.pc = "ready"
    /\ stats' = [stats EXCEPT !.out = print_stats(stats.data), !.pc = "done"]
    /\ UNCHANGED StatsOthers

StatsNext == PrintStats

SpecStatsInit ==
    /\ StatsInit
    /\ record = GoodRecord /\ verified = NotCalled /\ filtered = NotCalled
    /\ stderr = <<>>
    /\ verifyRun = Off /\ filterRun = Off /\ summary = Off
    /\ analysis = Off /\ batch = Off

SpecStats == SpecStatsInit /\ [][StatsNext]_vars

(* C17 *)

\* the k-th smallest value of the series, by counting
OrderStatistic(data, k) ==
    CHOOSE x \in {data[j] : j \in DOMAIN data} :
        /\ Cardinality({j \in DOMAIN data : ~RatLeq(x, data[j])}) < k
        /\ k <= Cardinality({j \in DOMAIN data : RatLeq(data[j], x)})

\* the value at rank (n - 1) * p / 100, counted from 0, interpolated
\* linearly between the two order statistics around it
Interpolated(data, p) ==
    LET n == Len(data)
        below == ((n - 1) * p) \div 100
        part == ((n - 1) * p) % 100
        above == IF part = 0 THEN below ELSE below + 1
    IN  RatMix(100 - part, OrderStatistic(data, below + 1),
               part, OrderStatistic(data, above + 1), 100)

StatsDone == stats.pc = "done" /\ stats.data # <<>>

\* C17: for a non-empty series the five numbers reported are the minimum,
\* the values at ranks (n-1)*25/100, (n-1)*50/100 and (n-1)*75/100 of the
\* sorted series under linear interpolation, and the maximum, printed
\* without loss; for 1..10 they are min 1, median 5.5, max 10.
C17_LinearInterpolationPercentiles ==
    StatsDone =>
        LET data == stats.data
            out == stats.out
        IN  /\ out.tag = "return" /\ out.printed = "statistics"
            /\ RatEq(out.values.min, OrderStatistic(data, 1))
            /\ RatEq(out.values.p25, Interpolated(data, 25))
            /\ RatEq(out.values.median, Interpolated(data, 50))
            /\ RatEq(out.values.p75, Interpolated(data, 75))
            /\ RatEq(out.values.max, OrderStatistic(data, Len(data)))
            /\ \A f \in DOMAIN out.values :
                  RatEq(<<out.text[f], 100>>, out.values[f])
            /\ data \in {OneToTen, OneToTenShuffled} =>
                  /\ out.text.min = 100
                  /\ out.text.median = 550
                  /\ out.text.max = 1000

C17_Witness ==
    /\ StatsDone
    /\ stats.data = OneToTenShuffled
    /\ stats.out.text.median = 550
    /\ stats.out.text.p25 = 325
    /\ stats.out.text.p75 = 775

----------------------------------------------------------------------------
(* batch_run_list.py *)

MaxYmlFiles == 3

\* the YAML files of the patient folders, named by their rank in the
\* alphabetical order of their paths
YmlPaths == 1..MaxYmlFiles

\* what the two globs return: distinct paths, in the file system's order
GlobResults ==
    {g \in SeqsUpTo(YmlPaths, MaxYmlFiles) :
        \A a, b \in DOMAIN g : a # b => g[a] # g[b]}

\* subprocess.run(["java", "-version"], timeout=5): exit code 0; a
\* non-zero exit code with or without "version" on stderr; or an exception
JavaChecks == {"ok", "nonzero_with_version", "nonzero_without_version",
               "FileNotFoundError", "TimeoutExpired", "PermissionError"}

\* subprocess.run(command, check=True, ...) in run_exomiser_analysis
RunOutcomes == {"ok", "CalledProcessError", "FileNotFoundError", "Exception"}

RECURSIVE InsertPath(_, _)
InsertPath(x, sorted) ==
    IF sorted = <<>> THEN <<x>>
    ELSE IF x <= Head(sorted) THEN <<x>> \o sorted
    ELSE <<Head(sorted)>> \o InsertPath(x, Tail(sorted))

RECURSIVE SortedPaths(_)
\* sorted(yml_files)
SortedPaths(paths) ==
    IF paths = <<>> THEN <<>>
    ELSE InsertPath(Head(paths), SortedPaths(Tail(paths)))

\* every globbed path lies one level below the root, so none is dropped
find_yml_files(globbed) == SortedPaths(globbed)

\* the errors validate_environment collects; an exception of the Java
\* check other than the two it names leaves the function
validate_environment(java, jar, yml_dir) ==
    IF java = "PermissionError" THEN Raised("PermissionError", "")
    ELSE Ok((IF java = "nonzero_without_version" THEN <<"java failed">>
             ELSE IF java = "FileNotFoundError" THEN <<"java not found">>
             ELSE IF java = "TimeoutExpired" THEN <<"java timed out">>
             ELSE <<>>)
            \o (IF jar THEN <<>> ELSE <<"jar not found">>)
            \o (IF yml_dir THEN <<>> ELSE <<"yaml root not found">>))

NoSummary == [total |-> 0, successful |-> 0, failed |-> 0]

BatchInit ==
    \E dry_run \in BOOLEAN, verbose \in BOOLEAN, java \in JavaChecks,
       jar \in BOOLEAN, yml_dir \in BOOLEAN, globbed \in GlobResults :
        batch = [pc |-> "validate",
                 dry_run |-> dry_run, verbose |-> verbose,
                 java |-> java, jar |-> jar, yml_dir |-> yml_dir,
                 globbed |-> globbed,
                 errors |-> <<>>, yml_files |-> <<>>, listed |-> <<>>,
                 stdout |-> <<>>, prompted |-> FALSE,
                 i |-> 1, successful |-> 0, failed |-> 0,
                 started |-> <<>>, finished |-> <<>>,
                 verbose_runs |-> <<>>,
                 summary |-> NoSummary,
                 exit_code |-> 0, escaped |-> ""]

BatchOthers == <<record, verified, filtered, stderr,
                 verifyRun, filterRun, summary, analysis, stats>>

\* is_valid, errors = validate_environment(); if not is_valid: sys.exit(1)
BatchValidate ==
    /\ batch.pc = "validate"
    /\ LET v == validate_environment(batch.java, batch.jar, batch.yml_dir)
       IN  batch' =
             IF ~v.ok
             THEN [batch EXCEPT !.pc = "raised", !.escaped = v.exc,
                                !.exit_code = 1]
             ELSE IF Len(v.v) # 0
             THEN [batch EXCEPT !.pc = "exited", !.errors = v.v,
                                !.stdout = Append(@, "validation failed"),
                                !.exit_code = 1]
             ELSE [batch EXCEPT !.pc = "scan",
                                !.stdout = Append(@, "validation passed")]
    /\ UNCHANGED BatchOthers

\* yml_files = find_yml_files(YML_ROOT_DIR); none: return; else the listing
BatchScan ==
    /\ batch.pc = "scan"
    /\ LET yml_files == find_yml_files(batch.globbed)
       IN  batch' =
             IF yml_files = <<>>
             THEN [batch EXCEPT !.pc = "returned",
                                !.stdout = Append(@, "No YAML files found")]
             ELSE [batch EXCEPT !.pc = "listed",
                                !.yml_files = yml_files,
                                !.listed = yml_files,
                                !.stdout = Append(@, "Found")]
    /\ UNCHANGED BatchOthers

\* if args.dry_run: print the notice and return
BatchDryRun ==
    /\ batch.pc = "listed"
    /\ batch.dry_run
    /\ batch' = [batch EXCEPT !.pc = "returned",
                              !.stdout = Append(@, "[DRY RUN]")]
    /\ UNCHANGED BatchOthers

\* BatchPrompt without the return of the dry run before it
BatchPrompt_despite_dry_run ==
    /\ batch.pc = "listed"
    /\ batch' = [batch EXCEPT !.pc = "prompt", !.prompted = TRUE]
    /\ UNCHANGED BatchOthers

\* input("Press Enter to START the batch analysis ..."): the prompt is
\* shown and the run waits
BatchPrompt ==
    /\ batch.pc = "listed"
    /\ ~batch.dry_run
    /\ batch' = [batch EXCEPT !.pc = "prompt", !.prompted = TRUE]
    /\ UNCHANGED BatchOthers

\* Enter
BatchConfirm ==
    /\ batch.pc = "prompt"
    /\ batch' = [batch EXCEPT !.pc = "running",
                              !.stdout = Append(@, "STARTING BATCH ANALYSIS")]
    /\ UNCHANGED BatchOthers

\* Ctrl+C: except KeyboardInterrupt: return
BatchCancel ==
    /\ batch.pc = "prompt"
    /\ batch' = [batch EXCEPT !.pc = "returned",
                              !.stdout = Append(@, "cancelled by user")]
    /\ UNCHANGED BatchOthers

\* one pass of `for yml_file in yml_files`: run_exomiser_analysis(yml_file,
\* verbose=True) is called and waits in subprocess.run
BatchRunAnalysis ==
    /\ batch.pc = "running"
    /\ batch.i <= Len(batch.yml_files)
    /\ batch' = [batch EXCEPT
                   !.pc = "analysis",
                   !.started = Append(@, batch.yml_files[batch.i]),
                   !.verbose_runs = Append(@, TRUE)]
    /\ UNCHANGED BatchOthers

\* BatchAnalysisEnds with a failed analysis ending the loop
BatchAnalysisEnds_failure_breaks ==
    /\ batch.pc = "analysis"
    /\ \E outcome \in RunOutcomes :
         LET ended == [batch EXCEPT !.finished = Append(@, outcome),
                                    !.pc = "running"]
         IN  batch' =
               CASE outcome = "ok" ->
                      [ended EXCEPT !.successful = @ + 1, !.i = @ + 1,
                                    !.stdout = Append(@, "SUCCESS")]
                 [] outcome = "CalledProcessError" ->
                      [ended EXCEPT !.failed = @ + 1,
                                    !.i = Len(batch.yml_files) + 1,
                                    !.stdout = Append(@, "FAILED")]
                 [] outcome = "Exception" ->
                      [ended EXCEPT !.failed = @ + 1,
                                    !.i = Len(batch.yml_files) + 1,
                                    !.stdout = Append(@, "UNEXPECTED ERROR")]
                 [] outcome = "FileNotFoundError" ->
                      [ended EXCEPT !.pc = "exited", !.exit_code = 1,
                                    !.stdout = Append(@, "Java not found in PATH")]
    /\ UNCHANGED BatchOthers

\* subprocess.run is over: run_exomiser_analysis returns True, returns
\* False (CalledProcessError or any other exception), or leaves through
\* sys.exit(1) (FileNotFoundError); True and False are counted
BatchAnalysisEnds ==
    /\ batch.pc = "analysis"
    /\ \E outcome \in RunOutcomes :
         LET ended == [batch EXCEPT !.finished = Append(@, outcome),
                                    !.pc = "running"]
         IN  batch' =
               CASE outcome = "ok" ->
                      [ended EXCEPT !.successful = @ + 1, !.i = @ + 1,
                                    !.stdout = Append(@, "SUCCESS")]
                 [] outcome = "CalledProcessError" ->
                      [ended EXCEPT !.failed = @ + 1, !.i = @ + 1,
                                    !.stdout = Append(@, "FAILED")]
                 [] outcome = "Exception" ->
                      [ended EXCEPT !.failed = @ + 1, !.i = @ + 1,
                                    !.stdout = Append(@, "UNEXPECTED ERROR")]
                 [] outcome = "FileNotFoundError" ->
                      [ended EXCEPT !.pc = "exited", !.exit_code = 1,
                                    !.stdout = Append(@, "Java not found in PATH")]
    /\ UNCHANGED BatchOthers

\* the summary after the loop
BatchSummary ==
    /\ batch.pc = "running"
    /\ batch.i > Len(batch.yml_files)
    /\ batch' = [batch EXCEPT
                   !.pc = "returned",
                   !.summary = [total |-> Len(batch.yml_files),
                                successful |-> batch.successful,
                                failed |-> batch.failed],
                   !.stdout = Append(@, "BATCH RUN COMPLETE")]
    /\ UNCHANGED BatchOthers

BatchNext ==
    \/ BatchValidate
    \/ BatchScan
    \/ BatchDryRun
    \/ BatchPrompt
    \/ BatchConfirm
    \/ BatchCancel
    \/ BatchRunAnalysis
    \/ BatchAnalysisEnds
    \/ BatchSummary

SpecBatchInit ==
    /\ BatchInit
    /\ record = GoodRecord /\ verified = NotCalled /\ filtered = NotCalled
    /\ stderr = <<>>
    /\ verifyRun = Off /\ filterRun = Off /\ summary = Off
    /\ analysis = Off /\ stats = Off

SpecBatch == SpecBatchInit /\ [][BatchNext]_vars

(* C19 *)

\* Java answers, the JAR exists and the YAML root is a directory
EnvironmentValid ==
    /\ batch.java \in {"ok", "nonzero_with_version"}
    /\ batch.jar
    /\ batch.yml_dir

BatchEnded == batch.pc \in {"returned", "exited", "raised"}

\* the discovered files, in alphabetical order
Discovered == [k \in 1..Len(batch.globbed) |->
                 CHOOSE p \in {batch.globbed[j] : j \in DOMAIN batch.globbed} :
                    Cardinality({j \in DOMAIN batch.globbed : batch.globbed[j] < p}) = k - 1]

\* C19: with --dry-run no analysis is ever started and the confirmation
\* prompt is never shown, and the run returns after listing the discovered
\* files; when the environment validation fails the process ends with exit
\* code 1 before any analysis is started.
C19_DryRunAndInvalidEnvironmentStartNothing ==
    /\ batch.dry_run =>
          /\ batch.started = <<>>
          /\ ~batch.prompted
          /\ batch.pc \notin {"prompt", "running"}
          /\ (batch.pc = "returned" /\ batch.globbed # <<>>) =>
                /\ batch.listed = Discovered
                /\ batch.stdout[Len(batch.stdout)] = "[DRY RUN]"
    /\ ~EnvironmentValid =>
          /\ batch.started = <<>>
          /\ batch.pc \in {"validate", "exited", "raised"}
          /\ batch.pc # "validate" => batch.exit_code = 1

\* a dry run over two files found out of alphabetical order, ended
C19_Witness ==
    /\ batch.dry_run /\ EnvironmentValid
    /\ batch.pc = "returned"
    /\ batch.globbed = <<2, 1>>
    /\ batch.listed = <<1, 2>>
    /\ batch.started = <<>>

\* a run without --dry-run whose JAR is missing, ended before the scan
InvalidEnvironmentExits ==
    /\ ~batch.dry_run /\ ~batch.jar
    /\ batch.java = "ok" /\ batch.yml_dir
    /\ batch.globbed # <<>>
    /\ batch.pc = "exited"

----------------------------------------------------------------------------
(* C21: the two lists and the per-file counters of verify_filtered_vcf *)

VcfEntries == {k \in 1..Len(VerifyFiles) : VerifyFiles[k].vcf}

\* the records of the file being read that have been checked and failed
FailedSoFar ==
    {j \in 1..verifyRun.pos : ~passes_filters(VerifyFile.records[j]).passes}

\* C21: after a run over an existing directory every ".vcf" entry is in
\* exactly one of passed_files and failed_files and no other entry is in
\* either, so the lengths of the two lists add up to the number of ".vcf"
\* entries; while a file is read the counters count the records of that
\* file only, and failed_variants <= total_variants at all times.
C21_ListsPartitionVcfFilesCountersPerFile ==
    /\ verifyRun.failed_variants <= verifyRun.total_variants
    /\ verifyRun.pc = "reading" =>
          /\ verifyRun.total_variants = verifyRun.pos
          /\ verifyRun.failed_variants = Cardinality(FailedSoFar)
    /\ (verifyRun.pc = "done" /\ verifyRun.dir.exists) =>
          /\ \A k \in 1..Len(VerifyFiles) :
                IF VerifyFiles[k].vcf
                THEN TimesPassed(k) + Cardinality(FailedEntriesOf(k)) = 1
                ELSE TimesPassed(k) = 0 /\ FailedEntriesOf(k) = {}
          /\ Len(verifyRun.passed_files) + Len(verifyRun.failed_files)
                = Cardinality(VcfEntries)
          /\ Len(verifyRun.summary.passed) + Len(verifyRun.summary.failed)
                = Cardinality(VcfEntries)

\* a listing of a file with a failing record followed by a file that
\* passes, both with records, and the run over it ended
C21_Witness ==
    /\ verifyRun.pc = "done"
    /\ verifyRun.dir.exists
    /\ Len(VerifyFiles) = 2
    /\ VcfEntries = {1, 2}
    /\ VerifyFiles[1].ending = "eof" /\ ~AllRecordsPass(VerifyFiles[1])
    /\ VerifyFiles[2].ending = "eof" /\ Len(VerifyFiles[2].records) = 2
    /\ verifyRun.passed_files = <<2>>
    /\ Cardinality(FailedEntriesOf(1)) = 1
    /\ verifyRun.total_variants = 2
    /\ verifyRun.failed_variants = 0

\* a listing with an entry that is not a ".vcf" file, and the run ended
OtherEntrySkipped ==
    /\ verifyRun.pc = "done"
    /\ verifyRun.dir.exists
    /\ Len(VerifyFiles) = 2
    /\ Cardinality(VcfEntries) = 1
    /\ Len(verifyRun.passed_files) + Len(verifyRun.failed_files) = 1

----------------------------------------------------------------------------
(* C22: the loop over the discovered files *)

\* the confirmation was given: the batch is started
BatchStarted == batch.pc \in {"running", "analysis"} \/ batch.started # <<>>

\* the analyses that ended with the given outcomes
FinishedWith(outcomes) ==
    {j \in 1..Len(batch.finished) : batch.finished[j] \in outcomes}

SummaryPrinted ==
    batch.pc = "returned" /\ batch.stdout[Len(batch.stdout)] = "BATCH RUN COMPLETE"

\* C22: once the batch is started the analyses are started in the sorted
\* order of the discovered files, each at most once and never before the
\* one before it has ended; an analysis ending with a non-zero exit code or
\* an unexpected error counts as failed and the next one follows; the
\* batch ends either with the summary, after every discovered file has
\* been run once, with successful + failed equal to their number, or
\* right after an analysis that found no Java executable.
C22_EveryFileRunOnceInOrder ==
    BatchStarted =>
        /\ Len(batch.started) <= Len(Discovered)
        /\ \A j \in 1..Len(batch.started) : batch.started[j] = Discovered[j]
        /\ Len(batch.started) - Len(batch.finished) =
              (IF batch.pc = "analysis" THEN 1 ELSE 0)
        /\ batch.successful = Cardinality(FinishedWith({"ok"}))
        /\ batch.failed =
              Cardinality(FinishedWith({"CalledProcessError", "Exception"}))
        /\ \A j \in FinishedWith({"FileNotFoundError"}) :
              j = Len(batch.finished) /\ batch.pc = "exited"
        /\ BatchEnded =>
              \/ /\ SummaryPrinted
                 /\ batch.started = Discovered
                 /\ batch.summary.total = Len(Discovered)
                 /\ batch.summary.successful + batch.summary.failed
                       = Len(Discovered)
                 /\ batch.summary.successful = batch.successful
                 /\ batch.summary.failed = batch.failed
              \/ /\ batch.pc = "exited"
                 /\ batch.exit_code = 1
                 /\ batch.finished[Len(batch.finished)] = "FileNotFoundError"

\* three files found out of order; the first analysis exits with a
\* non-zero code, the second raises, the third succeeds; summary printed
C22_Witness ==
    /\ SummaryPrinted
    /\ batch.globbed = <<3, 1, 2>>
    /\ batch.started = <<1, 2, 3>>
    /\ batch.finished = <<"CalledProcessError", "Exception", "ok">>
    /\ batch.summary = [total |-> 3, successful |-> 1, failed |-> 2]

\* the second analysis finds no Java executable: the third is not started
BatchEndedEarly ==
    /\ batch.pc = "exited"
    /\ Len(Discovered) = 3
    /\ batch.finished = <<"ok", "FileNotFoundError">>
    /\ batch.started = <<1, 2>>

====
